---- MODULE Spec2Model ----
(***************************************************************************)
(* State-machine model of the TAXGROK_AI document core:                    *)
(*   - the upload route          (src/unnamed/part_000)                    *)
(*   - the process route         (src/app/api/documents/[id]/process)      *)
(*   - the Document AI service   (src/unnamed/part_002)                    *)
(* Strings are TLA+ strings (Len, \o and SubSeq work on them), a nullable  *)
(* value is the empty tuple <<>> (null) or a one-element tuple <<v>>.      *)
(* The variable calls is the log of the calls made to the stateless        *)
(* functions of the code by the specifications that exercise them alone,   *)
(* and ui is the state of the client component that is mounted (<<>> when  *)
(* none is).                                                               *)
(***************************************************************************)
EXTENDS Integers, Sequences, FiniteSets, TLC

VARIABLES env, documents, files, requests, calls, ui

vars == <<env, documents, files, requests, calls, ui>>

(***************************************************************************)
(* Bounds of the model.                                                    *)
(***************************************************************************)
\* number of upload requests in a behaviour
MaxUploads == 1
\* number of process requests in a behaviour
MaxProcess == 2
\* number of calls in a behaviour of the specifications of the stateless
\* functions
MaxCalls == 3

Reqs == 1..(MaxUploads + MaxProcess)

(***************************************************************************)
(* String helpers (JavaScript String.prototype methods).                   *)
(***************************************************************************)
Min(a, b) == IF a < b THEN a ELSE b

\* s.includes(sub)
Includes(s, sub) == \E i \in 1..(Len(s) - Len(sub) + 1) : SubSeq(s, i, i + Len(sub) - 1) = sub

LowerChar(c) ==
  CASE c = "A" -> "a" [] c = "B" -> "b" [] c = "C" -> "c" [] c = "D" -> "d"
    [] c = "E" -> "e" [] c = "F" -> "f" [] c = "G" -> "g" [] c = "H" -> "h"
    [] c = "I" -> "i" [] c = "J" -> "j" [] c = "K" -> "k" [] c = "L" -> "l"
    [] c = "M" -> "m" [] c = "N" -> "n" [] c = "O" -> "o" [] c = "P" -> "p"
    [] c = "Q" -> "q" [] c = "R" -> "r" [] c = "S" -> "s" [] c = "T" -> "t"
    [] c = "U" -> "u" [] c = "V" -> "v" [] c = "W" -> "w" [] c = "X" -> "x"
    [] c = "Y" -> "y" [] c = "Z" -> "z" [] OTHER -> c

RECURSIVE ToLowerCase(_)
\* s.toLowerCase() (character by character; by halves, which keeps the
\* evaluation shallow on long strings)
ToLowerCase(s) ==
  IF s = "" THEN ""
  ELSE IF Len(s) = 1 THEN LowerChar(s)
  ELSE ToLowerCase(SubSeq(s, 1, Len(s) \div 2)) \o ToLowerCase(SubSeq(s, Len(s) \div 2 + 1, Len(s)))

RECURSIVE LastSegment(_, _)
\* s.split(sep).pop(): the part of s after the last occurrence of the character sep
LastSegment(s, sep) ==
  IF ~Includes(s, sep) THEN s
  ELSE LET i == CHOOSE k \in 1..Len(s) : SubSeq(s, k, k) = sep /\ ~Includes(SubSeq(s, 1, k - 1), sep)
       IN  LastSegment(SubSeq(s, i + 1, Len(s)), sep)

(***************************************************************************)
(* Users, sessions and tax returns (the external collaborators' data).     *)
(***************************************************************************)
\* "anon" has no session; "ghost" has a session whose email has no user row
Callers == {"anon", "ghost", "alice", "bob"}
Users == {"alice", "bob"}
\* the tax returns in the database and their owners
TaxReturnOwner == [tr \in {"tr1"} |-> "alice"]

\* prisma.taxReturn.findFirst({where: {id, userId}}) finds a row
OwnsTaxReturn(user, taxReturnId) ==
  taxReturnId \in DOMAIN TaxReturnOwner /\ TaxReturnOwner[taxReturnId] = user

(***************************************************************************)
(* Upload route.                                                           *)
(***************************************************************************)
allowedTypes == {"application/pdf", "image/png", "image/jpeg", "image/tiff"}

MaxFileSize == 10 * 1024 * 1024

\* the size check with >= for >
SizeTooLargeOffByOne(size) == size >= MaxFileSize

\* file.size > 10 * 1024 * 1024
SizeTooLarge(size) == size > MaxFileSize

\* the rules applied to the name as given, not lower-cased
determineDocumentTypeCaseSensitive(fileName) ==
  LET lowerName == fileName IN
  IF Includes(lowerName, "w-2") \/ Includes(lowerName, "w2") THEN "W2"
  ELSE IF Includes(lowerName, "1099-int") THEN "FORM_1099_INT"
  ELSE IF Includes(lowerName, "1099-div") THEN "FORM_1099_DIV"
  ELSE IF Includes(lowerName, "1099-misc") THEN "FORM_1099_MISC"
  ELSE IF Includes(lowerName, "1099-nec") THEN "FORM_1099_NEC"
  ELSE IF Includes(lowerName, "1099-r") THEN "FORM_1099_R"
  ELSE IF Includes(lowerName, "1099-g") THEN "FORM_1099_G"
  ELSE IF Includes(lowerName, "1099") THEN "OTHER_TAX_DOCUMENT"
  ELSE "UNKNOWN"

\* determineDocumentType(fileName)
determineDocumentType(fileName) ==
  LET lowerName == ToLowerCase(fileName) IN
  IF Includes(lowerName, "w-2") \/ Includes(lowerName, "w2") THEN "W2"
  ELSE IF Includes(lowerName, "1099-int") THEN "FORM_1099_INT"
  ELSE IF Includes(lowerName, "1099-div") THEN "FORM_1099_DIV"
  ELSE IF Includes(lowerName, "1099-misc") THEN "FORM_1099_MISC"
  ELSE IF Includes(lowerName, "1099-nec") THEN "FORM_1099_NEC"
  ELSE IF Includes(lowerName, "1099-r") THEN "FORM_1099_R"
  ELSE IF Includes(lowerName, "1099-g") THEN "FORM_1099_G"
  ELSE IF Includes(lowerName, "1099") THEN "OTHER_TAX_DOCUMENT"
  ELSE "UNKNOWN"

\* a response of NextResponse.json({error: body}, {status})
Resp(status, body) == [status |-> status, body |-> body]
NoResp == Resp(0, "")

\* the checks without the tax-return ownership check
UploadChecksNoOwnership(caller, file, taxReturnId) ==
  IF caller = "anon" THEN Resp(401, "Unauthorized")
  ELSE IF caller \notin Users THEN Resp(404, "User not found")
  ELSE IF file = <<>> \/ taxReturnId = "" THEN Resp(400, "Missing file or tax return ID")
  ELSE IF file[1].type \notin allowedTypes
       THEN Resp(400, "Invalid file type. Supported types: PDF, PNG, JPEG, TIFF")
  ELSE IF SizeTooLarge(file[1].size) THEN Resp(400, "File size exceeds 10MB limit")
  ELSE NoResp

\* the checks of the upload handler, in the order of the code: the response
\* of the first check that rejects, NoResp when the upload goes on to storage
UploadChecks(caller, file, taxReturnId) ==
  IF caller = "anon" THEN Resp(401, "Unauthorized")
  ELSE IF caller \notin Users THEN Resp(404, "User not found")
  ELSE IF file = <<>> \/ taxReturnId = "" THEN Resp(400, "Missing file or tax return ID")
  ELSE IF ~OwnsTaxReturn(caller, taxReturnId) THEN Resp(404, "Tax return not found")
  ELSE IF file[1].type \notin allowedTypes
       THEN Resp(400, "Invalid file type. Supported types: PDF, PNG, JPEG, TIFF")
  ELSE IF SizeTooLarge(file[1].size) THEN Resp(400, "File size exceeds 10MB limit")
  ELSE NoResp

\* the files a client may send
UploadFiles ==
  { [name |-> "My-W2-2023.pdf", type |-> "application/pdf", size |-> MaxFileSize],
    [name |-> "1099-int.PNG", type |-> "image/png", size |-> 2048],
    [name |-> "w2.pdf", type |-> "application/pdf", size |-> MaxFileSize + 1],
    [name |-> "scan.tiff", type |-> "image/tiff", size |-> 11 * 1024 * 1024],
    [name |-> "w2.txt", type |-> "text/plain", size |-> 2048],
    [name |-> "notes", type |-> "text/plain", size |-> MaxFileSize + 1] }

\* join('/tmp', 'uploads', 'documents')
uploadDir == "/tmp/uploads/documents"

\* `${uuidv4()}.${fileExtension}` under uploadDir; the uuid of request r is fresh
UploadPath(r, fileName) ==
  uploadDir \o "/" \o "uuid" \o ToString(r) \o "." \o LastSegment(fileName, ".")

\* the record inserted with the status of a Document being processed
NewDocumentProcessing(taxReturnId, file, filePath) ==
  [ taxReturnId |-> taxReturnId,
    fileName |-> file.name,
    fileType |-> file.type,
    fileSize |-> file.size,
    filePath |-> filePath,
    documentType |-> determineDocumentType(file.name),
    processingStatus |-> "PROCESSING",
    ocrText |-> <<>>,
    extractedData |-> <<>> ]

\* prisma.document.create({data: {...}}): the inserted record
NewDocument(taxReturnId, file, filePath) ==
  [ taxReturnId |-> taxReturnId,
    fileName |-> file.name,
    fileType |-> file.type,
    fileSize |-> file.size,
    filePath |-> filePath,
    documentType |-> determineDocumentType(file.name),
    processingStatus |-> "PENDING",
    ocrText |-> <<>>,
    extractedData |-> <<>> ]

(***************************************************************************)
(* JSON values: an object is a sequence of properties in insertion order;  *)
(* a property is [k, s] (string value) or [k, o] (object value).           *)
(***************************************************************************)
PS(k, v) == [k |-> k, s |-> v]
PO(k, v) == [k |-> k, o |-> v]
IsStr(p) == "s" \in DOMAIN p

HasKey(obj, k) == \E i \in 1..Len(obj) : obj[i].k = k
Prop(obj, k) == obj[CHOOSE i \in 1..Len(obj) : obj[i].k = k]

\* obj[k] used as a condition: a missing property and '' are falsy
Truthy(obj, k) == HasKey(obj, k) /\ (IsStr(Prop(obj, k)) => Prop(obj, k).s # "")

EscapeChar(c) ==
  CASE c = "\"" -> "\\\"" [] c = "\\" -> "\\\\" [] c = "\n" -> "\\n" [] OTHER -> c

RECURSIVE EscapeJson(_)
\* the body of a JSON string literal: quote, backslash and newline are escaped
EscapeJson(s) ==
  IF s = "" THEN ""
  ELSE IF Len(s) = 1 THEN EscapeChar(s)
  ELSE EscapeJson(SubSeq(s, 1, Len(s) \div 2)) \o EscapeJson(SubSeq(s, Len(s) \div 2 + 1, Len(s)))

\* the number of consecutive backslashes of s that end at position m
BackslashRun(s, m) ==
  CHOOSE j \in 0..m :
    /\ \A k \in (m - j + 1)..m : SubSeq(s, k, k) = "\\"
    /\ (j < m => SubSeq(s, m - j, m - j) # "\\")

RECURSIVE UnescapeJson(_)
\* JSON.parse of the body of a string literal (by halves, never cutting an
\* escape sequence in two)
UnescapeJson(s) ==
  IF s = "" THEN ""
  ELSE IF Len(s) = 1 THEN s
  ELSE IF Len(s) = 2 /\ SubSeq(s, 1, 1) = "\\"
       THEN (IF SubSeq(s, 2, 2) = "n" THEN "\n" ELSE SubSeq(s, 2, 2))
  ELSE LET h == Len(s) \div 2
           m == IF BackslashRun(s, h) % 2 = 1 THEN h + 1 ELSE h
       IN  UnescapeJson(SubSeq(s, 1, m)) \o UnescapeJson(SubSeq(s, m + 1, Len(s)))

Quote(s) == "\"" \o EscapeJson(s) \o "\""

RECURSIVE Stringify(_)
\* JSON.stringify(obj)
Stringify(obj) ==
  LET RECURSIVE Props(_)
      Props(i) ==
        IF i > Len(obj) THEN ""
        ELSE (IF i > 1 THEN "," ELSE "") \o Quote(obj[i].k) \o ":"
               \o (IF IsStr(obj[i]) THEN Quote(obj[i].s) ELSE Stringify(obj[i].o))
               \o Props(i + 1)
  IN  "{" \o Props(1) \o "}"

(***************************************************************************)
(* Document AI service (the primary provider) and its field normalizer.    *)
(* A provider document is [text, entities, pages]; an absent array is the  *)
(* empty sequence (the code treats both alike).  A textAnchor is <<>> or   *)
(* <<segments>>; an index 0 stands for 0 or a missing index.  A confidence *)
(* is <<>> (undefined) or <<c>>, c in hundredths.                          *)
(***************************************************************************)
Max(a, b) == IF a > b THEN a ELSE b

\* s.substring(start, end)
Substring(s, start, end) ==
  LET a == Min(Max(start, 0), Len(s))
      b == Min(Max(end, 0), Len(s))
  IN  SubSeq(s, Min(a, b) + 1, Max(a, b))

IsSpace(c) == c \in {" ", "\n", "\t"}

RECURSIVE TrimStart(_)
TrimStart(s) ==
  IF s # "" /\ IsSpace(SubSeq(s, 1, 1)) THEN TrimStart(SubSeq(s, 2, Len(s))) ELSE s

RECURSIVE TrimEnd(_)
TrimEnd(s) ==
  IF s # "" /\ IsSpace(SubSeq(s, Len(s), Len(s))) THEN TrimEnd(SubSeq(s, 1, Len(s) - 1)) ELSE s

\* s.trim()
Trim(s) == TrimEnd(TrimStart(s))

\* getText(textAnchor, fullText)
getText(textAnchor, fullText) ==
  IF textAnchor = <<>> \/ textAnchor[1] = <<>> THEN ""
  ELSE LET segment == textAnchor[1][1]
           startIndex == segment.startIndex
           endIndex == IF segment.endIndex = 0 THEN Len(fullText) ELSE segment.endIndex
       IN  Trim(Substring(fullText, startIndex, endIndex))

\* the initial w2Data object of extractW2Data
w2Data ==
  << PS("employerName", ""), PS("employerEIN", ""),
     PS("employerAddress", ""), PS("employeeName", ""),
     PS("employeeSSN", ""), PS("employeeAddress", ""), PS("wages", ""),
     PS("federalTaxWithheld", ""), PS("socialSecurityWages", ""),
     PS("socialSecurityTaxWithheld", ""), PS("medicareWages", ""),
     PS("medicareTaxWithheld", ""), PS("socialSecurityTips", ""),
     PS("allocatedTips", ""), PS("stateWages", ""),
     PS("stateTaxWithheld", ""), PS("localWages", ""),
     PS("localTaxWithheld", "") >>

\* the initial data1099Int object of extract1099IntData
data1099Int ==
  << PS("payerName", ""), PS("payerTIN", ""), PS("payerAddress", ""),
     PS("recipientName", ""), PS("recipientTIN", ""),
     PS("recipientAddress", ""), PS("interestIncome", ""),
     PS("earlyWithdrawalPenalty", ""), PS("interestOnUSavingsBonds", ""),
     PS("federalTaxWithheld", ""), PS("investmentExpenses", ""),
     PS("foreignTaxPaid", ""), PS("foreignCountry", ""),
     PS("taxExemptInterest", ""), PS("privateActivityBondInterest", ""),
     PS("marketDiscount", ""), PS("bondPremium", ""),
     PS("bondPremiumOnTaxExemptBond", ""), PS("stateCode", ""),
     PS("stateTaxWithheld", ""), PS("stateIdNumber", "") >>

\* the initial data1099Div object of extract1099DivData
data1099Div ==
  << PS("payerName", ""), PS("payerTIN", ""), PS("payerAddress", ""),
     PS("recipientName", ""), PS("recipientTIN", ""),
     PS("recipientAddress", ""), PS("ordinaryDividends", ""),
     PS("qualifiedDividends", ""), PS("totalCapitalGain", ""),
     PS("unrecaptured1250Gain", ""), PS("section1202Gain", ""),
     PS("collectiblesGain", ""), PS("nondividendDistributions", ""),
     PS("federalTaxWithheld", ""), PS("section199ADividends", ""),
     PS("investmentExpenses", ""), PS("foreignTaxPaid", ""),
     PS("foreignCountry", ""), PS("cashLiquidation", ""),
     PS("noncashLiquidation", ""), PS("stateCode", ""),
     PS("stateTaxWithheld", ""), PS("stateIdNumber", "") >>

\* the initial data1099Misc object of extract1099MiscData
data1099Misc ==
  << PS("payerName", ""), PS("payerTIN", ""), PS("payerAddress", ""),
     PS("recipientName", ""), PS("recipientTIN", ""),
     PS("recipientAddress", ""), PS("rents", ""), PS("royalties", ""),
     PS("otherIncome", ""), PS("federalTaxWithheld", ""),
     PS("fishingBoatProceeds", ""), PS("medicalHealthPayments", ""),
     PS("nonemployeeCompensation", ""), PS("substitutePayments", ""),
     PS("cropInsuranceProceeds", ""), PS("grossProceeds", ""),
     PS("section409ADeferrals", ""), PS("section409AIncome", ""),
     PS("excessGoldenParachute", ""),
     PS("nonqualifiedDeferredCompensation", ""), PS("stateCode", ""),
     PS("stateTaxWithheld", ""), PS("stateIdNumber", "") >>

\* the initial data1099Nec object of extract1099NecData
data1099Nec ==
  << PS("payerName", ""), PS("payerTIN", ""), PS("payerAddress", ""),
     PS("recipientName", ""), PS("recipientTIN", ""),
     PS("recipientAddress", ""), PS("nonemployeeCompensation", ""),
     PS("federalTaxWithheld", ""), PS("stateCode", ""),
     PS("stateTaxWithheld", ""), PS("stateIdNumber", "") >>

\* one object kept by the service and handed to every call, as the last
\* call left it
genericDataShared ==
  LET earlier == {k \in 1..Len(calls) :
                    /\ calls[k].fn = "transformToTaxData"
                    /\ calls[k].documentType \notin
                         {"W2", "FORM_1099_INT", "FORM_1099_DIV", "FORM_1099_MISC", "FORM_1099_NEC"}}
  IN  IF earlier = {}
      THEN << PS("payerName", ""), PS("payerTIN", ""), PS("recipientName", ""),
              PS("recipientTIN", ""), PS("incomeAmount", ""), PS("taxWithheld", ""),
              PO("relevantBoxes", <<>>) >>
      ELSE calls[CHOOSE k \in earlier : \A j \in earlier : j <= k].result.extractedData

\* the initial genericData object of extractGenericTaxData
genericData ==
  << PS("payerName", ""), PS("payerTIN", ""), PS("recipientName", ""),
     PS("recipientTIN", ""), PS("incomeAmount", ""), PS("taxWithheld", ""),
     PO("relevantBoxes", <<>>) >>

\* dataObject[key] = value
SetField(dataObject, key, value) ==
  [i \in 1..Len(dataObject) |-> IF dataObject[i].k = key THEN PS(key, value) ELSE dataObject[i]]

\* the switch on entity.type of extractW2Data: the field an entity type sets
EntityField(type) ==
  CASE type = "employee_name" -> "employeeName"
    [] type = "employee_ssn" -> "employeeSSN"
    [] type = "employer_name" -> "employerName"
    [] type = "employer_ein" -> "employerEIN"
    [] type = "wages_tips_other_compensation" -> "wages"
    [] type = "federal_income_tax_withheld" -> "federalTaxWithheld"
    [] type = "social_security_wages" -> "socialSecurityWages"
    [] type = "social_security_tax_withheld" -> "socialSecurityTaxWithheld"
    [] type = "medicare_wages_and_tips" -> "medicareWages"
    [] type = "medicare_tax_withheld" -> "medicareTaxWithheld"
    [] OTHER -> ""

\* the if/else-if chain on the lower-cased label of extractW2Data
W2FormField(fieldName) ==
  IF Includes(fieldName, "wages") /\ Includes(fieldName, "tips") THEN "wages"
  ELSE IF Includes(fieldName, "federal") /\ Includes(fieldName, "tax") THEN "federalTaxWithheld"
  ELSE IF Includes(fieldName, "social security") /\ Includes(fieldName, "wages")
       THEN "socialSecurityWages"
  ELSE IF Includes(fieldName, "medicare") /\ Includes(fieldName, "wages") THEN "medicareWages"
  ELSE ""

\* document.pages[0].formFields, empty when there is no page
FirstPageFields(document) ==
  IF document.pages = <<>> THEN <<>> ELSE document.pages[1].formFields

\* !field.fieldName?.textAnchor || !field.fieldValue?.textAnchor
FieldSkipped(field) ==
  \/ field.fieldName = <<>> \/ field.fieldName[1].textAnchor = <<>>
  \/ field.fieldValue = <<>> \/ field.fieldValue[1].textAnchor = <<>>

\* extractW2Data(document)
extractW2Data(document) ==
  LET RECURSIVE Entities(_, _)
      Entities(data, i) ==
        IF i > Len(document.entities) THEN data
        ELSE LET entity == document.entities[i]
                 value == getText(entity.textAnchor, document.text)
                 key == EntityField(entity.type)
             IN  Entities(IF key = "" THEN data ELSE SetField(data, key, value), i + 1)
      fields == FirstPageFields(document)
      RECURSIVE FormFields(_, _)
      FormFields(data, i) ==
        IF i > Len(fields) THEN data
        ELSE IF FieldSkipped(fields[i]) THEN FormFields(data, i + 1)
        ELSE LET fieldName == ToLowerCase(getText(fields[i].fieldName[1].textAnchor, document.text))
                 fieldValue == getText(fields[i].fieldValue[1].textAnchor, document.text)
                 key == W2FormField(fieldName)
             IN  FormFields(IF key = "" THEN data ELSE SetField(data, key, fieldValue), i + 1)
  IN  FormFields(Entities(w2Data, 1), 1)

AlphaNumeric ==
  { "a", "b", "c", "d", "e", "f", "g", "h", "i", "j", "k", "l", "m", "n", "o", "p", "q",
    "r", "s", "t", "u", "v", "w", "x", "y", "z", "0", "1", "2", "3", "4", "5", "6", "7",
    "8", "9" }

KeepAlnum(c) == IF c \in AlphaNumeric THEN c ELSE ""

RECURSIVE StripNonAlnum(_)
\* s.replace(/[^a-zA-Z0-9]/g, '') of a lower-cased string
StripNonAlnum(s) ==
  IF s = "" THEN ""
  ELSE IF Len(s) = 1 THEN KeepAlnum(s)
  ELSE StripNonAlnum(SubSeq(s, 1, Len(s) \div 2))
         \o StripNonAlnum(SubSeq(s, Len(s) \div 2 + 1, Len(s)))

\* s.toLowerCase().replace(/[^a-zA-Z0-9]/g, '')
Normalize(s) == StripNonAlnum(ToLowerCase(s))

\* the for-of loop of extractGenericFormFields: the index of the first key
\* matching the normalized label, 0 when none matches
MatchingKey(dataObject, normalizedFieldName) ==
  LET Matches(i) == LET normalizedKey == Normalize(dataObject[i].k) IN
                    \/ Includes(normalizedFieldName, normalizedKey)
                    \/ Includes(normalizedKey, normalizedFieldName)
  IN  IF \E i \in 1..Len(dataObject) : Matches(i)
      THEN CHOOSE i \in 1..Len(dataObject) : Matches(i) /\ \A j \in 1..(i - 1) : ~Matches(j)
      ELSE 0

\* extractGenericFormFields(document, dataObject): the dataObject it leaves
extractGenericFormFields(document, dataObject) ==
  LET fields == FirstPageFields(document)
      RECURSIVE FormFields(_, _)
      FormFields(data, i) ==
        IF i > Len(fields) THEN data
        ELSE IF FieldSkipped(fields[i]) THEN FormFields(data, i + 1)
        ELSE LET fieldName == getText(fields[i].fieldName[1].textAnchor, document.text)
                 fieldValue == getText(fields[i].fieldValue[1].textAnchor, document.text)
                 m == MatchingKey(data, Normalize(fieldName))
             IN  FormFields(IF m = 0 THEN data ELSE SetField(data, data[m].k, fieldValue), i + 1)
  IN  FormFields(dataObject, 1)

\* the average over the entities and the form fields of the first page only
calculateAverageConfidenceFirstPage(document) ==
  LET RECURSIVE SumE(_)
      SumE(i) == IF i > Len(document.entities) THEN <<0, 0>>
                 ELSE LET rest == SumE(i + 1)
                          c == document.entities[i].confidence
                      IN  IF c = <<>> THEN rest ELSE <<rest[1] + c[1], rest[2] + 1>>
      RECURSIVE SumF(_, _)
      SumF(fields, i) ==
        IF i > Len(fields) THEN <<0, 0>>
        ELSE LET rest == SumF(fields, i + 1)
                 fv == fields[i].fieldValue
             IN  IF fv = <<>> \/ fv[1].confidence = <<>> THEN rest
                 ELSE <<rest[1] + fv[1].confidence[1], rest[2] + 1>>
      first == IF document.pages = <<>> THEN <<0, 0>> ELSE SumF(document.pages[1].formFields, 1)
      totalConfidence == SumE(1)[1] + first[1]
      count == SumE(1)[2] + first[2]
  IN  IF count > 0 THEN [num |-> totalConfidence, den |-> count] ELSE [num |-> 0, den |-> 1]

\* calculateAverageConfidence(document): totalConfidence / count as a fraction
\* of hundredths, 0 when count = 0
calculateAverageConfidence(document) ==
  LET RECURSIVE SumE(_)
      SumE(i) == IF i > Len(document.entities) THEN <<0, 0>>
                 ELSE LET rest == SumE(i + 1)
                          c == document.entities[i].confidence
                      IN  IF c = <<>> THEN rest ELSE <<rest[1] + c[1], rest[2] + 1>>
      RECURSIVE SumF(_, _)
      SumF(fields, i) ==
        IF i > Len(fields) THEN <<0, 0>>
        ELSE LET rest == SumF(fields, i + 1)
                 fv == fields[i].fieldValue
             IN  IF fv = <<>> \/ fv[1].confidence = <<>> THEN rest
                 ELSE <<rest[1] + fv[1].confidence[1], rest[2] + 1>>
      RECURSIVE SumP(_)
      SumP(p) == IF p > Len(document.pages) THEN <<0, 0>>
                 ELSE LET rest == SumP(p + 1)
                          here == SumF(document.pages[p].formFields, 1)
                      IN  <<rest[1] + here[1], rest[2] + here[2]>>
      totalConfidence == SumE(1)[1] + SumP(1)[1]
      count == SumE(1)[2] + SumP(1)[2]
  IN  IF count > 0 THEN [num |-> totalConfidence, den |-> count] ELSE [num |-> 0, den |-> 1]

\* transformToTaxData(document, documentType)
transformToTaxData(document, documentType) ==
  [ documentType |-> documentType,
    ocrText |-> document.text,
    extractedData |->
      CASE documentType = "W2" -> extractW2Data(document)
        [] documentType = "FORM_1099_INT" -> extractGenericFormFields(document, data1099Int)
        [] documentType = "FORM_1099_DIV" -> extractGenericFormFields(document, data1099Div)
        [] documentType = "FORM_1099_MISC" -> extractGenericFormFields(document, data1099Misc)
        [] documentType = "FORM_1099_NEC" -> extractGenericFormFields(document, data1099Nec)
        [] OTHER -> extractGenericFormFields(document, genericData),
    confidence |-> calculateAverageConfidence(document) ]

(***************************************************************************)
(* Provider selection and the two providers (process route).               *)
(***************************************************************************)
\* the configuration values of process.env: TRUE when set to a non-empty string
EnvNames ==
  { "GOOGLE_CLOUD_PROJECT_ID", "GOOGLE_CLOUD_W2_PROCESSOR_ID",
    "GOOGLE_APPLICATION_CREDENTIALS", "GOOGLE_CLOUD_1099_PROCESSOR_ID" }

\* the configurations of the deployment: any of the values set or not (the
\* 1099 processor id is read only when the other three are set)
EnvConfigs ==
  { e \in [EnvNames -> BOOLEAN] :
      e["GOOGLE_CLOUD_1099_PROCESSOR_ID"] =>
        /\ e["GOOGLE_CLOUD_PROJECT_ID"]
        /\ e["GOOGLE_CLOUD_W2_PROCESSOR_ID"]
        /\ e["GOOGLE_APPLICATION_CREDENTIALS"] }

\* the selection without the credential path
useDocumentAIWithoutCredentials(e) ==
  e["GOOGLE_CLOUD_PROJECT_ID"] /\ e["GOOGLE_CLOUD_W2_PROCESSOR_ID"]

\* const useDocumentAI = ... && ... && ...
useDocumentAI(e) ==
  /\ e["GOOGLE_CLOUD_PROJECT_ID"]
  /\ e["GOOGLE_CLOUD_W2_PROCESSOR_ID"]
  /\ e["GOOGLE_APPLICATION_CREDENTIALS"]

\* createDocumentAIConfig(): <<>> when it throws, else <<config>>
createDocumentAIConfig(e) ==
  IF ~e["GOOGLE_CLOUD_PROJECT_ID"] \/ ~e["GOOGLE_CLOUD_W2_PROCESSOR_ID"] THEN <<>>
  ELSE << [ projectId |-> e["GOOGLE_CLOUD_PROJECT_ID"],
            w2ProcessorId |-> e["GOOGLE_CLOUD_W2_PROCESSOR_ID"],
            form1099ProcessorId |-> e["GOOGLE_CLOUD_1099_PROCESSOR_ID"] ] >>

Form1099Types ==
  { "FORM_1099_INT", "FORM_1099_DIV", "FORM_1099_MISC", "FORM_1099_NEC", "FORM_1099_R",
    "FORM_1099_G" }

\* getProcessorName(documentType): "" when it throws, else the processor used
getProcessorName(config, documentType) ==
  IF documentType = "W2" THEN "w2ProcessorId"
  ELSE IF documentType \in Form1099Types
       THEN (IF ~config.form1099ProcessorId THEN "" ELSE "form1099ProcessorId")
  ELSE "w2ProcessorId"

\* getMimeType(filePath)
getMimeType(filePath) ==
  LET extension == LastSegment(ToLowerCase(filePath), ".") IN
  CASE extension = "pdf" -> "application/pdf"
    [] extension = "png" -> "image/png"
    [] extension \in {"jpg", "jpeg"} -> "image/jpeg"
    [] extension \in {"tiff", "tif"} -> "image/tiff"
    [] OTHER -> "application/pdf"

Anchor(a, b) == << << [startIndex |-> a, endIndex |-> b] >> >>
Entity(type, a, b, conf) == [type |-> type, textAnchor |-> Anchor(a, b), confidence |-> conf]
FormField(na, nb, va, vb, conf) ==
  [ fieldName |-> << [textAnchor |-> Anchor(na, nb)] >>,
    fieldValue |-> << [textAnchor |-> Anchor(va, vb), confidence |-> conf] >> ]

\* what the Document AI processor may return as result.document
ProviderDocuments ==
  { [ text |-> "Jane Doe 55000.00 Federal income tax withheld 1200",
      entities |-> << Entity("employee_name", 0, 8, <<90>>),
                      Entity("wages_tips_other_compensation", 9, 17, <<80>>),
                      Entity("box_12_code", 9, 17, <<>>) >>,
      pages |-> << [formFields |-> << FormField(18, 45, 46, 50, <<70>>) >>] >> ],
    [ text |-> "Payer TIN: 12-345 \"ACME\"\nInterest income 10.00 and more text to fill the page up to a longer length, well over one hundred characters in total",
      entities |-> <<>>,
      pages |-> << [formFields |-> << FormField(0, 9, 11, 17, <<>>),
                                      FormField(26, 41, 42, 47, <<60>>) >>] >> ] }

\* an outcome the environment decides: an exception or a value
Thrown(what) == [error |-> what]
Returned(value) == [value |-> value]
IsThrown(outcome) == "error" \in DOMAIN outcome

\* the failures of the primary path that the environment decides: the client
\* constructor throws, readFile rejects, the call rejects, no result.document
PrimaryFailures ==
  { Thrown("client"), Thrown("readFile"), Thrown("processDocument"), Thrown("noDocument") }

\* the outcome of the try block of the primary path (route.ts:56-59 and
\* DocumentAIService.processDocument): <<>> when it throws, else <<result>>;
\* outcome is a failure of PrimaryFailures or the provider's document
PrimaryAttempt(e, document, outcome) ==
  LET config == createDocumentAIConfig(e) IN
  IF config = <<>> THEN <<>>
  ELSE IF outcome = Thrown("client") THEN <<>>
  ELSE IF getProcessorName(config[1], document.documentType) = "" THEN <<>>
  ELSE IF IsThrown(outcome) THEN <<>>
  ELSE << transformToTaxData(outcome.value, document.documentType) >>

\* what JSON.parse(content) may be for the content of the LLM's answer
LLMContents ==
  { << PS("documentType", "W2"), PS("ocrText", "Form W-2 Wage and Tax Stateme"),
       PO("extractedData", << PS("wages", "55000.00") >>) >>,
    << PS("documentType", ""), PS("employerName", "ACME \"Inc\""), PS("wages", "1") >>,
    << PS("documentType", "FORM_1099_INT"),
       PS("ocrText", "012345678901234567890123456789012345678901234567890123456789012345678901234567890123456789012"),
       PO("extractedData", << PS("payerName", "Bank"), PS("interestIncome", "10.00") >>) >> }

\* the failures of processWithLLM: readFile rejects, fetch rejects, the
\* response is not ok, the content is empty, the content is not JSON
LLMFailures ==
  { Thrown("readFile"), Thrown("fetch"), Thrown("notOk"), Thrown("noContent"),
    Thrown("parse") }

\* the confidence of an LLM result, 0.85, in hundredths
LLMConfidence == 85

\* the object returned by processWithLLM(document) for the parsed content
processWithLLM(document, parsedContent) ==
  [ documentType |-> IF Truthy(parsedContent, "documentType")
                     THEN Prop(parsedContent, "documentType").s ELSE document.documentType,
    ocrText |-> IF Truthy(parsedContent, "ocrText")
                THEN Prop(parsedContent, "ocrText").s ELSE "",
    extractedData |-> IF Truthy(parsedContent, "extractedData")
                      THEN Prop(parsedContent, "extractedData").o ELSE parsedContent,
    confidence |-> [num |-> LLMConfidence, den |-> 1] ]

(***************************************************************************)
(* The event stream of the process route.                                  *)
(***************************************************************************)
chunkSize == 100

\* JSON.stringify({documentType, ocrText, extractedData})
jsonResponse(extractedTaxData) ==
  Stringify(<< PS("documentType", extractedTaxData.documentType),
               PS("ocrText", extractedTaxData.ocrText),
               PO("extractedData", extractedTaxData.extractedData) >>)

\* the slice one character short
ShortChunk(json, i) == SubSeq(json, i + 1, Min(i + chunkSize - 1, Len(json)))

\* jsonResponse.slice(i, i + chunkSize)
Chunk(json, i) == SubSeq(json, i + 1, Min(i + chunkSize, Len(json)))

EventPrefix == "data: {\"content\":"
EventSuffix == "}\n\n"

\* `data: ${JSON.stringify({content: chunk})}\n\n`
ContentEvent(chunk) == "data: " \o Stringify(<< PS("content", chunk) >>) \o "\n\n"

DoneEvent == "data: [DONE]\n\n"

\* the envelope persisted in Document.extractedData
Envelope(extractedTaxData) ==
  [ documentType |-> extractedTaxData.documentType,
    ocrText |-> extractedTaxData.ocrText,
    extractedData |-> extractedTaxData.extractedData,
    confidence |-> extractedTaxData.confidence ]

(***************************************************************************)
(* Request slots.                                                          *)
(***************************************************************************)
IdleRequest ==
  [ kind |-> "none", pc |-> "idle", caller |-> "anon",
    \* upload: the form data, the path written, the id of the record created
    file |-> <<>>, taxReturnId |-> "", filePath |-> "", created |-> 0,
    \* process: params.id, the record found, the provider's result
    id |-> 0, document |-> <<>>, extractedTaxData |-> <<>>,
    \* process: the stream (jsonResponse, loop index, events enqueued, state)
    json |-> "", i |-> 0, events |-> <<>>, stream |-> "none",
    response |-> NoResp,
    \* history: statuses this request wrote to its Document, the providers it
    \* invoked, where its first exception was thrown, and whether the update
    \* of a catch block was rejected
    writes |-> <<>>, primaryInvoked |-> FALSE, primaryFailed |-> FALSE,
    llmInvoked |-> FALSE, failure |-> "", catchThrew |-> FALSE ]

Init ==
  /\ env \in EnvConfigs
  /\ documents = <<>>
  /\ files = {}
  /\ requests = [r \in Reqs |-> IdleRequest]
  /\ calls = <<>>
  /\ ui = <<>>

NumOf(kind) == Cardinality({r \in Reqs : requests[r].kind = kind})

\* slots are taken in increasing order
FreeSlot(r) ==
  /\ requests[r].kind = "none"
  /\ \A q \in Reqs : q < r => requests[q].kind # "none"

Set(r, rec) == requests' = [requests EXCEPT ![r] = rec]

\* POST /api/documents/upload up to the end of the validation (part_000:11-58)
UploadStart(r) ==
  /\ FreeSlot(r)
  /\ NumOf("upload") < MaxUploads
  /\ \E caller \in Callers, file \in {<<>>} \cup {<<f>> : f \in UploadFiles},
        taxReturnId \in {"", "tr1"}, throws \in BOOLEAN :
       LET base == [IdleRequest EXCEPT !.kind = "upload", !.caller = caller,
                                       !.file = file, !.taxReturnId = taxReturnId]
           check == UploadChecks(caller, file, taxReturnId)
       IN  IF throws
           THEN Set(r, [base EXCEPT !.pc = "done",
                                    !.response = Resp(500, "Internal server error")])
           ELSE IF check # NoResp
           THEN Set(r, [base EXCEPT !.pc = "done", !.response = check])
           ELSE Set(r, [base EXCEPT !.pc = "writeFile"])
  /\ UNCHANGED <<ui, calls, env, documents, files>>

\* mkdir, file.arrayBuffer and writeFile (part_000:60-72)
UploadWriteFile(r) ==
  /\ requests[r].kind = "upload" /\ requests[r].pc = "writeFile"
  /\ \E throws \in BOOLEAN :
       IF throws
       THEN /\ Set(r, [requests[r] EXCEPT !.pc = "done",
                                          !.response = Resp(500, "Internal server error")])
            /\ UNCHANGED files
       ELSE LET path == UploadPath(r, requests[r].file[1].name) IN
            /\ files' = files \cup {path}
            /\ Set(r, [requests[r] EXCEPT !.pc = "create", !.filePath = path])
  /\ UNCHANGED <<ui, calls, env, documents>>

\* determineDocumentType and prisma.document.create (part_000:74-90)
UploadCreate(r) ==
  /\ requests[r].kind = "upload" /\ requests[r].pc = "create"
  /\ \E throws \in BOOLEAN :
       IF throws
       THEN /\ Set(r, [requests[r] EXCEPT !.pc = "done",
                                          !.response = Resp(500, "Internal server error")])
            /\ UNCHANGED documents
       ELSE /\ documents' = Append(documents,
                 NewDocument(requests[r].taxReturnId, requests[r].file[1], requests[r].filePath))
            /\ Set(r, [requests[r] EXCEPT !.pc = "done", !.created = Len(documents) + 1,
                                          !.response = Resp(200, "document")])
  /\ UNCHANGED <<ui, calls, env, files>>

(***************************************************************************)
(* Process route.                                                          *)
(***************************************************************************)
\* prisma.document.findFirst({where: {id, taxReturn: {userId}}}) finds a row
DocumentFound(docs, id, user) ==
  id \in 1..Len(docs) /\ OwnsTaxReturn(user, docs[id].taxReturnId)

\* the checks of the process handler before the first write (route.ts:14-39)
ProcessChecks(docs, caller, id) ==
  IF caller = "anon" THEN Resp(401, "Unauthorized")
  ELSE IF caller \notin Users THEN Resp(404, "User not found")
  ELSE IF ~DocumentFound(docs, id, caller) THEN Resp(404, "Document not found")
  ELSE NoResp

\* prisma.document.update({where: {id}, data}) on the table
UpdateDocument(docs, id, data) ==
  [docs EXCEPT ![id] = [f \in DOMAIN docs[id] |-> IF f \in DOMAIN data THEN data[f] ELSE docs[id][f]]]

\* the update that also stores the documentType the provider reported
CompletedDataWithType(extractedTaxData) ==
  [ ocrText |-> <<extractedTaxData.ocrText>>,
    extractedData |-> <<Envelope(extractedTaxData)>>,
    documentType |-> extractedTaxData.documentType,
    processingStatus |-> "COMPLETED" ]

\* the update that saves the envelope and leaves the ocrText column to a
\* second update
CompletedDataEnvelopeOnly(extractedTaxData) ==
  [ extractedData |-> <<Envelope(extractedTaxData)>>,
    processingStatus |-> "COMPLETED" ]

\* the data of the update that saves a result (route.ts:93-105)
CompletedData(extractedTaxData) ==
  [ ocrText |-> <<extractedTaxData.ocrText>>,
    extractedData |-> <<Envelope(extractedTaxData)>>,
    processingStatus |-> "COMPLETED" ]

\* the primary path without its catch block
AfterPrimaryNoFallback(ok) == IF ok THEN "stream" ELSE "catch"
\* the secondary provider called whatever the primary returned
AfterPrimaryAlwaysLLM(ok) == "llm"
\* where the handler goes after the try block of the primary path
AfterPrimary(ok) == IF ok THEN "stream" ELSE "llm"

\* a stream that announces its end together with its first chunk
StartStreamDoneFirst(rec, extractedTaxData) ==
  LET json == jsonResponse(extractedTaxData) IN
  [rec EXCEPT !.extractedTaxData = <<extractedTaxData>>, !.json = json, !.i = 0,
              !.events = <<ContentEvent(Chunk(json, 0)), DoneEvent>>, !.stream = "readable",
              !.response = Resp(200, "stream"), !.pc = "chunks"]

\* new ReadableStream({start}) up to the first await of start, and the
\* Response returned with it (route.ts:72-89, 120-125)
StartStream(rec, extractedTaxData) ==
  LET json == jsonResponse(extractedTaxData) IN
  [rec EXCEPT !.extractedTaxData = <<extractedTaxData>>, !.json = json, !.i = 0,
              !.events = <<ContentEvent(Chunk(json, 0))>>, !.stream = "readable",
              !.response = Resp(200, "stream"), !.pc = "chunks"]

\* POST /api/documents/[id]/process up to the ownership check (route.ts:13-39)
ProcessStart(r) ==
  /\ FreeSlot(r)
  /\ NumOf("process") < MaxProcess
  /\ \E caller \in Callers, id \in 1..(MaxUploads + 1), throws \in BOOLEAN :
       LET base == [IdleRequest EXCEPT !.kind = "process", !.caller = caller, !.id = id]
           check == ProcessChecks(documents, caller, id)
       IN  IF throws
           THEN Set(r, [base EXCEPT !.pc = "catch", !.failure = "lookup"])
           ELSE IF check # NoResp
           THEN Set(r, [base EXCEPT !.pc = "done", !.response = check])
           ELSE Set(r, [base EXCEPT !.pc = "setProcessing", !.document = <<documents[id]>>])
  /\ UNCHANGED <<ui, calls, env, documents, files>>

\* the update to PROCESSING (route.ts:41-45)
ProcessSetProcessing(r) ==
  /\ requests[r].kind = "process" /\ requests[r].pc = "setProcessing"
  /\ \E throws \in BOOLEAN :
       IF throws
       THEN /\ Set(r, [requests[r] EXCEPT !.pc = "catch", !.failure = "update"])
            /\ UNCHANGED documents
       ELSE /\ documents' = UpdateDocument(documents, requests[r].id,
                                           [processingStatus |-> "PROCESSING"])
            /\ Set(r, [requests[r] EXCEPT !.pc = "extract",
                                          !.writes = Append(@, "PROCESSING")])
  /\ UNCHANGED <<ui, calls, env, files>>

\* the provider selection, the primary path and the call of the secondary
\* provider (route.ts:47-69)
ProcessExtract(r) ==
  /\ requests[r].kind = "process" /\ requests[r].pc = "extract"
  /\ IF useDocumentAI(env)
     THEN \E outcome \in PrimaryFailures \cup {Returned(d) : d \in ProviderDocuments} :
            LET result == PrimaryAttempt(env, requests[r].document[1], outcome)
                rec == [requests[r] EXCEPT !.primaryInvoked = TRUE,
                                           !.primaryFailed = (result = <<>>)]
                next == AfterPrimary(result # <<>>)
            IN  IF next = "stream" /\ result # <<>>
                THEN Set(r, StartStream(rec, result[1]))
                ELSE Set(r, [rec EXCEPT !.pc = next, !.llmInvoked = (next = "llm"),
                                        !.failure = IF next = "catch" THEN "primary" ELSE @])
     ELSE Set(r, [requests[r] EXCEPT !.pc = "llm", !.llmInvoked = TRUE])
  /\ UNCHANGED <<ui, calls, env, documents, files>>

\* the call of processWithLLM(document) returns or throws (route.ts:144-204)
ProcessLLM(r) ==
  /\ requests[r].kind = "process" /\ requests[r].pc = "llm"
  /\ \E outcome \in LLMFailures \cup {Returned(c) : c \in LLMContents} :
       LET rec == requests[r] IN
       IF IsThrown(outcome)
       THEN Set(r, [rec EXCEPT !.pc = "catch", !.failure = "llm"])
       ELSE Set(r, StartStream(rec, processWithLLM(rec.document[1], outcome.value)))
  /\ UNCHANGED <<ui, calls, env, documents, files>>

\* one turn of the chunk loop after its 50 ms pause (route.ts:85-90); leaving
\* the loop issues the update that saves the result
ProcessChunk(r) ==
  /\ requests[r].kind = "process" /\ requests[r].pc = "chunks"
  /\ LET i == requests[r].i + chunkSize IN
     IF i < Len(requests[r].json)
     THEN IF requests[r].stream = "readable"
          THEN Set(r, [requests[r] EXCEPT !.i = i,
                         !.events = Append(@, ContentEvent(Chunk(requests[r].json, i)))])
          ELSE Set(r, [requests[r] EXCEPT !.i = i, !.pc = "streamCatch", !.failure = "enqueue"])
     ELSE Set(r, [requests[r] EXCEPT !.i = i, !.pc = "save"])
  /\ UNCHANGED <<ui, calls, env, documents, files>>

\* the update that saves the result with COMPLETED (route.ts:92-105)
ProcessSave(r) ==
  /\ requests[r].kind = "process" /\ requests[r].pc = "save"
  /\ \E throws \in BOOLEAN :
       IF throws
       THEN /\ Set(r, [requests[r] EXCEPT !.pc = "streamCatch", !.failure = "update"])
            /\ UNCHANGED documents
       ELSE /\ documents' = UpdateDocument(documents, requests[r].id,
                                           CompletedData(requests[r].extractedTaxData[1]))
            /\ Set(r, [requests[r] EXCEPT !.pc = "finish", !.writes = Append(@, "COMPLETED")])
  /\ UNCHANGED <<ui, calls, env, files>>

\* the end-of-stream marker and controller.close() (route.ts:107-108)
ProcessFinish(r) ==
  /\ requests[r].kind = "process" /\ requests[r].pc = "finish"
  /\ IF requests[r].stream = "readable"
     THEN Set(r, [requests[r] EXCEPT !.events = Append(@, DoneEvent), !.stream = "closed",
                                     !.pc = "done"])
     ELSE Set(r, [requests[r] EXCEPT !.pc = "streamCatch", !.failure = "enqueue"])
  /\ UNCHANGED <<ui, calls, env, documents, files>>

\* the catch block of start (route.ts:109-116)
ProcessStreamCatch(r) ==
  /\ requests[r].kind = "process" /\ requests[r].pc = "streamCatch"
  /\ \E throws \in BOOLEAN :
       LET errored == IF requests[r].stream = "readable" THEN "errored" ELSE requests[r].stream IN
       IF throws
       THEN /\ Set(r, [requests[r] EXCEPT !.pc = "done", !.stream = errored,
                                          !.catchThrew = TRUE])
            /\ UNCHANGED documents
       ELSE /\ documents' = UpdateDocument(documents, requests[r].id,
                                           [processingStatus |-> "FAILED"])
            /\ Set(r, [requests[r] EXCEPT !.pc = "done", !.stream = errored,
                                          !.writes = Append(@, "FAILED")])
  /\ UNCHANGED <<ui, calls, env, files>>

\* the catch block of the handler (route.ts:127-140); when its own update
\* throws the handler rejects and the framework answers
ProcessCatch(r) ==
  /\ requests[r].kind = "process" /\ requests[r].pc = "catch"
  /\ \E throws \in BOOLEAN :
       IF throws \/ requests[r].id \notin 1..Len(documents)
       THEN /\ Set(r, [requests[r] EXCEPT !.pc = "done", !.catchThrew = TRUE,
                                          !.response = Resp(500, "unhandled")])
            /\ UNCHANGED documents
       ELSE /\ documents' = UpdateDocument(documents, requests[r].id,
                                           [processingStatus |-> "FAILED"])
            /\ Set(r, [requests[r] EXCEPT !.pc = "done", !.writes = Append(@, "FAILED"),
                                          !.response = Resp(500, "Internal server error")])
  /\ UNCHANGED <<ui, calls, env, files>>

\* the consumer of the response cancels the stream (client disconnect)
CancelStream(r) ==
  /\ requests[r].kind = "process" /\ requests[r].stream = "readable"
  /\ Set(r, [requests[r] EXCEPT !.stream = "cancelled"])
  /\ UNCHANGED <<ui, calls, env, documents, files>>

Next ==
  \E r \in Reqs :
    \/ UploadStart(r) \/ UploadWriteFile(r) \/ UploadCreate(r)
    \/ ProcessStart(r) \/ ProcessSetProcessing(r) \/ ProcessExtract(r) \/ ProcessLLM(r)
    \/ ProcessChunk(r) \/ ProcessSave(r) \/ ProcessFinish(r)
    \/ ProcessStreamCatch(r) \/ ProcessCatch(r) \/ CancelStream(r)

Spec == Init /\ [][Next]_vars

(***************************************************************************)
(* Properties.                                                             *)
(***************************************************************************)
ProcessReqs == {r \in Reqs : requests[r].kind = "process"}
UploadReqs == {r \in Reqs : requests[r].kind = "upload"}

Terminal == {"COMPLETED", "FAILED"}

\* the caller of process request r owns the Document it names
OwnsTarget(r) ==
  /\ requests[r].id \in 1..Len(documents)
  /\ OwnsTaxReturn(requests[r].caller, documents[requests[r].id].taxReturnId)

\* C1: within one processing attempt the statuses written only move forward:
\* after a write of COMPLETED or FAILED the attempt writes neither PENDING nor
\* PROCESSING, and it writes no second, different terminal status.
C1_StatusMonotonic ==
  \A r \in ProcessReqs :
    LET w == requests[r].writes IN
    \A i, j \in 1..Len(w) :
      (i < j /\ w[i] \in Terminal) => (w[j] \notin {"PENDING", "PROCESSING"} /\ w[j] = w[i])

\* C2: in every reachable state a Document has extractedData exactly when its
\* processingStatus is COMPLETED.
C2_ExtractedDataIffCompleted ==
  \A d \in 1..Len(documents) :
    (documents[d].extractedData # <<>>) <=> (documents[d].processingStatus = "COMPLETED")

\* C3: a process request of a caller who is unauthenticated or does not own
\* the target Document writes nothing to that Document, whatever happens
\* during the request.
C3_UnauthorizedWritesNothing ==
  \A r \in ProcessReqs : ~OwnsTarget(r) => requests[r].writes = <<>>

\* C4: a process request that fails after the ownership check ends with FAILED
\* as the last status it persisted and with the generic status-500 response
\* (provided the update that writes FAILED is not itself rejected).
C4_FailureIsFailedAnd500 ==
  \A r \in ProcessReqs :
    (requests[r].pc = "done" /\ requests[r].failure \notin {"", "lookup"}
       /\ ~requests[r].catchThrew) =>
      /\ requests[r].writes # <<>>
      /\ requests[r].writes[Len(requests[r].writes)] = "FAILED"
      /\ requests[r].response = Resp(500, "Internal server error")

\* the three configuration values of the primary provider are all present
ConfigPresent ==
  /\ env["GOOGLE_CLOUD_PROJECT_ID"]
  /\ env["GOOGLE_CLOUD_W2_PROCESSOR_ID"]
  /\ env["GOOGLE_APPLICATION_CREDENTIALS"]

\* request r has written PROCESSING and chosen its provider
PastSelection(r) ==
  /\ requests[r].writes # <<>> /\ requests[r].writes[1] = "PROCESSING"
  /\ requests[r].pc # "extract"

\* C5: the primary provider is invoked only when the three configuration
\* values are present; when one is absent a request that reaches the provider
\* selection invokes the secondary provider and no error of the primary path
\* reaches the handler's catch block.
C5_PrimaryOnlyWhenConfigured ==
  \A r \in ProcessReqs :
    /\ requests[r].primaryInvoked => ConfigPresent
    /\ (~ConfigPresent /\ PastSelection(r)) =>
         /\ requests[r].llmInvoked
         /\ ~requests[r].primaryInvoked
         /\ requests[r].failure # "primary"

\* a request served by the secondary provider although two of the three
\* values (all but the credential path) are set
C5_Witness ==
  \E r \in ProcessReqs :
    /\ env["GOOGLE_CLOUD_PROJECT_ID"] /\ env["GOOGLE_CLOUD_W2_PROCESSOR_ID"]
    /\ ~env["GOOGLE_APPLICATION_CREDENTIALS"]
    /\ requests[r].llmInvoked /\ requests[r].stream = "closed"

\* C6: whenever the primary provider was attempted and failed, the secondary
\* provider is invoked in the same request and the primary's error does not
\* reach the handler's catch block (the caller).
C6_PrimaryFailureFallsBack ==
  \A r \in ProcessReqs :
    requests[r].primaryFailed =>
      /\ requests[r].primaryInvoked
      /\ requests[r].llmInvoked
      /\ requests[r].failure # "primary"

\* a request whose primary attempt failed and that ended with a complete
\* stream of the secondary provider's result
C6_Witness ==
  \E r \in ProcessReqs :
    /\ requests[r].primaryFailed
    /\ requests[r].stream = "closed"
    /\ requests[r].response.status = 200

\* the results the two providers can give for a Document record
PrimaryResultsFor(document) ==
  {transformToTaxData(d, document.documentType) : d \in ProviderDocuments}
SecondaryResultsFor(document) ==
  {processWithLLM(document, c) : c \in LLMContents}

\* C7: the result of an attempt comes from exactly one provider: when the
\* primary returns a result the secondary is never invoked and that result is
\* kept unmodified, streamed and persisted; when the secondary is invoked the
\* result is the secondary's; every write of extractedData stores the envelope
\* of the writing request's result.
C7_OneProviderPerAttempt ==
  [][ /\ \A r \in Reqs :
           LET q == requests[r]
               n == requests'[r]
           IN  /\ (n.primaryInvoked /\ ~n.primaryFailed) => ~n.llmInvoked
               /\ (q.extractedTaxData = <<>> /\ n.extractedTaxData # <<>>) =>
                    /\ n.extractedTaxData[1] \in
                         (IF n.llmInvoked THEN SecondaryResultsFor(n.document[1])
                                          ELSE PrimaryResultsFor(n.document[1]))
                    /\ n.primaryInvoked \/ n.llmInvoked
                    /\ n.json = jsonResponse(n.extractedTaxData[1])
               /\ q.extractedTaxData # <<>> =>
                    (n.extractedTaxData = q.extractedTaxData /\ n.json = q.json)
      /\ \A d \in 1..Len(documents) :
           documents'[d].extractedData # documents[d].extractedData =>
             \E r \in Reqs :
               /\ requests[r].id = d /\ requests[r].kind = "process"
               /\ requests'[r].writes = Append(requests[r].writes, "COMPLETED")
               /\ documents'[d].extractedData = <<Envelope(requests[r].extractedTaxData[1])>>
               /\ documents'[d].ocrText = <<requests[r].extractedTaxData[1].ocrText>>
    ]_vars

\* a request whose primary provider returned a result that was persisted and
\* streamed to the end
C7_Witness ==
  \E r \in ProcessReqs :
    /\ requests[r].primaryInvoked /\ ~requests[r].primaryFailed
    /\ requests[r].stream = "closed"
    /\ documents[requests[r].id].extractedData = <<Envelope(requests[r].extractedTaxData[1])>>

\* an event of the form data: {"content":"..."}\n\n
IsContentEvent(e) ==
  /\ Len(e) >= Len(EventPrefix) + Len(EventSuffix) + 2
  /\ SubSeq(e, 1, Len(EventPrefix) + 1) = EventPrefix \o "\""
  /\ SubSeq(e, Len(e) - Len(EventSuffix), Len(e)) = "\"" \o EventSuffix

\* the content a consumer parses out of a content event
EventContent(e) ==
  UnescapeJson(SubSeq(e, Len(EventPrefix) + 2, Len(e) - Len(EventSuffix) - 1))

RECURSIVE ConcatContents(_, _)
\* the contents of the first n events, concatenated in emission order
ConcatContents(events, n) ==
  IF n = 0 THEN "" ELSE ConcatContents(events, n - 1) \o EventContent(events[n])

\* C8: a request that closes its stream with serialized result of length L
\* has emitted exactly ceil(L/100) content events of at most 100 characters
\* each, whose contents concatenated equal the serialized {documentType,
\* ocrText, extractedData}, followed by exactly one [DONE] event, the last
\* one; nothing is emitted after it.
C8_ChunkedEvents ==
  [][ \A r \in Reqs :
        /\ (requests[r].stream # "closed" /\ requests'[r].stream = "closed") =>
             LET t == requests'[r].extractedTaxData[1]
                 json == Stringify(<< PS("documentType", t.documentType),
                                      PS("ocrText", t.ocrText),
                                      PO("extractedData", t.extractedData) >>)
                 events == requests'[r].events
                 n == Len(events) - 1
             IN  /\ n = (Len(json) + 99) \div 100
                 /\ \A k \in 1..n : /\ IsContentEvent(events[k])
                                     /\ events[k] # DoneEvent
                                     /\ Len(EventContent(events[k])) <= 100
                 /\ ConcatContents(events, n) = json
                 /\ events[n + 1] = DoneEvent
        /\ requests[r].stream = "closed" =>
             (requests'[r].stream = "closed" /\ requests'[r].events = requests[r].events)
    ]_vars

\* a successful request whose serialized result is longer than one chunk and
\* an exact multiple of the chunk size
C8_Witness ==
  \E r \in ProcessReqs :
    /\ requests[r].stream = "closed"
    /\ Len(requests[r].json) > 100
    /\ Len(requests[r].json) % 100 = 0

\* upload request r wrote no file and inserted no record
NothingCreated(r) == requests[r].filePath = "" /\ requests[r].created = 0

\* the files in storage and the records in the table are those the upload
\* requests report
StorageMatchesRequests ==
  /\ files = {requests[r].filePath : r \in {u \in UploadReqs : requests[u].filePath # ""}}
  /\ Len(documents) = Cardinality({r \in UploadReqs : requests[r].created # 0})

\* upload request r is of a user who owns the target tax return
OwnsReturn(r) ==
  /\ requests[r].caller \in {"alice", "bob"}
  /\ requests[r].taxReturnId \in DOMAIN TaxReturnOwner
  /\ TaxReturnOwner[requests[r].taxReturnId] = requests[r].caller

\* the file is not a PDF, PNG, JPEG or TIFF, or is larger than 10 MiB
InvalidFile(f) ==
  \/ f.type \notin {"application/pdf", "image/png", "image/jpeg", "image/tiff"}
  \/ f.size > 10485760

\* C9: an upload of a file with an unsupported mime type or of more than
\* 10 MiB creates nothing, whoever sends it, and is answered 400 once the
\* caller's checks have passed (500 when a lookup throws); a supported file of
\* exactly 10 MiB is not rejected.
C9_InvalidFileRejected ==
  /\ StorageMatchesRequests
  /\ \A r \in UploadReqs :
       requests[r].file # <<>> =>
         LET f == requests[r].file[1] IN
         /\ InvalidFile(f) =>
              /\ NothingCreated(r)
              /\ (requests[r].pc = "done" /\ OwnsReturn(r) /\ requests[r].response.status # 500)
                   => requests[r].response.status = 400
         /\ (~InvalidFile(f) /\ f.size = 10485760 /\ OwnsReturn(r)
               /\ requests[r].pc = "done")
              => requests[r].response.status \in {200, 500}

\* an upload of a supported type and more than 10 MiB that was answered 400
C9_Witness ==
  \E r \in UploadReqs :
    /\ requests[r].file # <<>>
    /\ requests[r].file[1].type = "application/pdf"
    /\ requests[r].file[1].size = 10485761
    /\ requests[r].response = Resp(400, "File size exceeds 10MB limit")
    /\ documents = <<>> /\ files = {}

\* C10: an upload of an unauthenticated caller is answered 401, an upload to
\* a tax return that is not the caller's is answered 404 (500 when a lookup
\* throws), and neither writes a file nor inserts a record, whatever the file.
C10_UnauthorizedUploadRejected ==
  /\ StorageMatchesRequests
  /\ \A r \in UploadReqs :
       /\ requests[r].caller = "anon" =>
            /\ NothingCreated(r)
            /\ (requests[r].pc = "done" /\ requests[r].response.status # 500)
                 => requests[r].response.status = 401
       /\ (requests[r].caller # "anon" /\ ~OwnsReturn(r)
             /\ requests[r].file # <<>> /\ requests[r].taxReturnId # "") =>
            /\ NothingCreated(r)
            /\ (requests[r].pc = "done" /\ requests[r].response.status # 500)
                 => requests[r].response.status = 404

\* an upload of an oversized file of an unsupported type to another user's
\* tax return, answered 404
C10_Witness ==
  \E r \in UploadReqs :
    /\ requests[r].caller = "bob" /\ requests[r].taxReturnId = "tr1"
    /\ requests[r].file # <<>>
    /\ requests[r].file[1].type = "text/plain" /\ requests[r].file[1].size > 10485760
    /\ requests[r].response = Resp(404, "Tax return not found")
    /\ documents = <<>> /\ files = {}

\* the step in which upload request r is answered with the created record
UploadSucceeds(r) ==
  /\ requests'[r].kind = "upload"
  /\ requests[r].pc # "done" /\ requests'[r].pc = "done"
  /\ requests'[r].response.status = 200

\* C11: an upload that passes the authentication, ownership, mime and size
\* checks and succeeds has written exactly one file and inserts exactly one
\* Document, whose status is PENDING, whose ocrText and extractedData are
\* null, and which belongs to the requested tax return and names that file.
C11_UploadCreatesOneOfEach ==
  [][\A r \in Reqs :
       UploadSucceeds(r) =>
         LET d == documents'[Len(documents')] IN
         /\ requests[r].caller \in {"alice", "bob"}
         /\ TaxReturnOwner[requests[r].taxReturnId] = requests[r].caller
         /\ ~InvalidFile(requests[r].file[1])
         /\ Len(documents') = Len(documents) + 1
         /\ SubSeq(documents', 1, Len(documents)) = documents
         /\ requests'[r].created = Len(documents')
         /\ files' = files
         /\ Cardinality({p \in files : Includes(p, "uuid" \o ToString(r) \o ".")}) = 1
         /\ d.filePath \in files
         /\ Includes(d.filePath, "uuid" \o ToString(r) \o ".")
         /\ d.processingStatus = "PENDING"
         /\ d.ocrText = <<>> /\ d.extractedData = <<>>
         /\ d.taxReturnId = requests[r].taxReturnId
         /\ d.fileName = requests[r].file[1].name
         /\ d.fileType = requests[r].file[1].type
         /\ d.fileSize = requests[r].file[1].size
    ]_vars

\* a PNG uploaded by the owner of the tax return, answered with its record
C11_Witness ==
  \E r \in UploadReqs :
    /\ requests[r].response.status = 200
    /\ requests[r].file[1].type = "image/png"
    /\ requests[r].created = 1 /\ Len(documents) = 1
    /\ files = {requests[r].filePath}
    /\ documents[1].taxReturnId = "tr1"

(***************************************************************************)
(* The stateless functions exercised alone: each call is logged in calls   *)
(* with its arguments and its result; the routes are idle.                 *)
(***************************************************************************)
CallInit ==
  /\ env = [n \in EnvNames |-> FALSE]
  /\ documents = <<>>
  /\ files = {}
  /\ requests = [r \in Reqs |-> IdleRequest]
  /\ calls = <<>>
  /\ ui = <<>>

\* the file names given to determineDocumentType
FileNames ==
  { "My-W2-2023.pdf", "my-w2-2023.PDF", "W-2.PDF", "w-2.pdf", "w2_1099-INT.pdf",
    "1099-int-w2.png", "1099-INT.pdf", "1099-int.pdf", "1099-international.pdf",
    "1099-div-form.png", "1099-DIV-FORM.PNG", "1099-div_1099-int.pdf",
    "1099-Misc.jpg", "1099-nec.tiff", "1099-NEC-1099-misc.pdf", "1099-r.pdf",
    "1099-Retirement.pdf", "1099-g.pdf", "1099-G-1099-R.pdf", "form-1099-xyz.pdf",
    "FORM 1099.PDF", "1099int.pdf", "receipt.pdf", "W 2.pdf", "10-99-int.pdf", "" }

\* a call of determineDocumentType(fileName)
CallDetermineDocumentType ==
  /\ Len(calls) < MaxCalls
  /\ \E fileName \in FileNames :
       calls' = Append(calls, [fn |-> "determineDocumentType", fileName |-> fileName,
                               result |-> determineDocumentType(fileName)])
  /\ UNCHANGED <<ui, env, documents, files, requests>>

NameNext == CallDetermineDocumentType

NameSpec == CallInit /\ [][NameNext]_vars

\* the rules of the type inference in their documented order: the
\* substrings looked for and the type given
TypeRules ==
  << [patterns |-> {"w-2", "w2"}, type |-> "W2"],
     [patterns |-> {"1099-int"}, type |-> "FORM_1099_INT"],
     [patterns |-> {"1099-div"}, type |-> "FORM_1099_DIV"],
     [patterns |-> {"1099-misc"}, type |-> "FORM_1099_MISC"],
     [patterns |-> {"1099-nec"}, type |-> "FORM_1099_NEC"],
     [patterns |-> {"1099-r"}, type |-> "FORM_1099_R"],
     [patterns |-> {"1099-g"}, type |-> "FORM_1099_G"],
     [patterns |-> {"1099"}, type |-> "OTHER_TAX_DOCUMENT"] >>

\* rule i matches the name: one of its substrings occurs in the lower-cased name
RuleMatches(i, fileName) ==
  \E p \in TypeRules[i].patterns : Includes(ToLowerCase(fileName), p)

\* C12: determineDocumentType returns the type of the first rule, in the
\* documented order, one of whose substrings occurs in the lower-cased name,
\* UNKNOWN when no rule matches, and the same type for names that differ only
\* in letter case.
C12_FirstMatchingRule ==
  /\ \A k \in 1..Len(calls) :
       LET matching == {i \in 1..Len(TypeRules) : RuleMatches(i, calls[k].fileName)} IN
       IF matching = {} THEN calls[k].result = "UNKNOWN"
       ELSE \E i \in matching :
              /\ \A j \in matching : i <= j
              /\ calls[k].result = TypeRules[i].type
  /\ \A k, l \in 1..Len(calls) :
       ToLowerCase(calls[k].fileName) = ToLowerCase(calls[l].fileName)
         => calls[k].result = calls[l].result

\* a name in upper case that matches the 1099-div rule and the 1099 rule, and
\* the same name in lower case, both typed FORM_1099_DIV
C12_Witness ==
  /\ Len(calls) = 2
  /\ calls[1].fileName = "1099-DIV-FORM.PNG" /\ calls[2].fileName = "1099-div-form.png"
  /\ calls[1].result = "FORM_1099_DIV" /\ calls[2].result = "FORM_1099_DIV"

\* the eighteen canonical fields of a W2
W2Fields ==
  { "employerName", "employerEIN", "employerAddress", "employeeName", "employeeSSN",
    "employeeAddress", "wages", "federalTaxWithheld", "socialSecurityWages",
    "socialSecurityTaxWithheld", "medicareWages", "medicareTaxWithheld",
    "socialSecurityTips", "allocatedTips", "stateWages", "stateTaxWithheld", "localWages",
    "localTaxWithheld" }

\* process request r found a W2 in status PENDING, met no failure, closed its
\* stream, and no other request has written to that Document
ProcessedAlone(r) ==
  /\ requests[r].pc = "done" /\ requests[r].failure = ""
  /\ requests[r].stream = "closed"
  /\ requests[r].document[1].documentType = "W2"
  /\ requests[r].document[1].processingStatus = "PENDING"
  /\ \A q \in ProcessReqs \ {r} : requests[q].id = requests[r].id => requests[q].writes = <<>>

\* C13: a W2 uploaded and then processed without failure ends COMPLETED, and
\* the extractedData persisted holds the eighteen W2 fields and a confidence
\* between 0 and 1, whichever provider produced the result.
C13_W2CompletedWithAllFields ==
  \A r \in ProcessReqs :
    ProcessedAlone(r) =>
      LET d == documents[requests[r].id] IN
      /\ d.processingStatus = "COMPLETED"
      /\ d.extractedData # <<>>
      /\ \A k \in W2Fields : HasKey(d.extractedData[1].extractedData, k)
      /\ 0 <= d.extractedData[1].confidence.num
      /\ d.extractedData[1].confidence.num <= 100 * d.extractedData[1].confidence.den

(***************************************************************************)
(* The process route on a table that holds the Documents of two earlier    *)
(* uploads.                                                                *)
(***************************************************************************)
\* the Documents of alice's tax return created by two earlier uploads
ExistingDocuments ==
  << NewDocument("tr1", [name |-> "w-2.png", type |-> "image/png", size |-> 4096],
                 uploadDir \o "/uuid-a.png"),
     NewDocument("tr1", [name |-> "1099-int.pdf", type |-> "application/pdf", size |-> 2048],
                 uploadDir \o "/uuid-b.pdf") >>

\* without the primary provider, with its W2 processor alone, with both
FrameInit ==
  /\ env \in {[n \in EnvNames |-> FALSE],
              [n \in EnvNames |-> n # "GOOGLE_CLOUD_1099_PROCESSOR_ID"],
              [n \in EnvNames |-> TRUE]}
  /\ documents = ExistingDocuments
  /\ files = {ExistingDocuments[i].filePath : i \in 1..Len(ExistingDocuments)}
  /\ requests = [r \in Reqs |-> IdleRequest]
  /\ calls = <<>>
  /\ ui = <<>>

FrameNext ==
  \E r \in Reqs :
    \/ ProcessStart(r) \/ ProcessSetProcessing(r) \/ ProcessExtract(r) \/ ProcessLLM(r)
    \/ ProcessChunk(r) \/ ProcessSave(r) \/ ProcessFinish(r)
    \/ ProcessStreamCatch(r) \/ ProcessCatch(r) \/ CancelStream(r)

FrameSpec == FrameInit /\ [][FrameNext]_vars

\* the fields of a Document that the upload sets and nothing changes after
UploadFields == {"taxReturnId", "fileName", "fileType", "fileSize", "filePath", "documentType"}

\* C14: no step deletes a Document or changes the fileName, mime type, size,
\* storage path, documentType or tax return of one, and a step of a process
\* request leaves every Document other than its target as it was.
C14_ProcessFrame ==
  [][/\ Len(documents') >= Len(documents)
     /\ \A id \in 1..Len(documents) :
          /\ \A f \in UploadFields : documents'[id][f] = documents[id][f]
          /\ \A r \in Reqs :
               (requests'[r] # requests[r] /\ requests'[r].kind = "process"
                  /\ requests'[r].id # id)
                 => documents'[id] = documents[id]
    ]_vars

\* two Documents, one completed by a request whose provider reported another
\* documentType than the Document's, the other one as it was created
C14_Witness ==
  /\ Len(documents) = 2
  /\ \E r \in ProcessReqs :
       /\ requests[r].writes = <<"PROCESSING", "COMPLETED">>
       /\ requests[r].extractedTaxData[1].documentType # documents[requests[r].id].documentType
       /\ \E id \in 1..2 :
            /\ id # requests[r].id
            /\ documents[id].processingStatus = "PENDING"
            /\ documents[id].extractedData = <<>>

(***************************************************************************)
(* The field normalizer exercised alone on raw provider payloads.          *)
(* A payload is laid out from its tokens: the text is the tokens, one per  *)
(* line, and an anchor names the span of one token.                        *)
(***************************************************************************)
RECURSIVE JoinLines(_)
\* the tokens, each followed by a line break
JoinLines(tokens) ==
  IF tokens = <<>> THEN "" ELSE tokens[1] \o "\n" \o JoinLines(Tail(tokens))

\* the index in the text at which token i starts
TokenStart(tokens, i) == Len(JoinLines(SubSeq(tokens, 1, i - 1)))

\* the textAnchor of token i
TokenAnchor(tokens, i) == Anchor(TokenStart(tokens, i), TokenStart(tokens, i) + Len(tokens[i]))

\* an entity of the given type whose text is token i
TokenEntity(tokens, type, i, conf) ==
  [type |-> type, textAnchor |-> TokenAnchor(tokens, i), confidence |-> conf]

\* a form field whose label is token n and whose value is token v
TokenField(tokens, n, v, conf) ==
  [ fieldName |-> << [textAnchor |-> TokenAnchor(tokens, n)] >>,
    fieldValue |-> << [textAnchor |-> TokenAnchor(tokens, v), confidence |-> conf] >> ]

\* a W2 parser's result: one entity of every mapped type and one of a type
\* the code does not map, no page
EntityTokens ==
  << "Jane Doe", "123-45-6789", "ACME Corp", "12-3456789", "55000.00", "1200.00",
     "56000.00", "3472.00", "57000.00", "826.50", "D 500.00" >>

EntityPayload ==
  [ text |-> JoinLines(EntityTokens),
    entities |->
      << TokenEntity(EntityTokens, "employee_name", 1, <<90>>),
         TokenEntity(EntityTokens, "employee_ssn", 2, <<100>>),
         TokenEntity(EntityTokens, "employer_name", 3, <<80>>),
         TokenEntity(EntityTokens, "employer_ein", 4, <<>>),
         TokenEntity(EntityTokens, "wages_tips_other_compensation", 5, <<95>>),
         TokenEntity(EntityTokens, "federal_income_tax_withheld", 6, <<85>>),
         TokenEntity(EntityTokens, "social_security_wages", 7, <<75>>),
         TokenEntity(EntityTokens, "social_security_tax_withheld", 8, <<0>>),
         TokenEntity(EntityTokens, "medicare_wages_and_tips", 9, <<65>>),
         TokenEntity(EntityTokens, "medicare_tax_withheld", 10, <<55>>),
         TokenEntity(EntityTokens, "box_12_code", 11, <<45>>) >>,
    pages |-> <<>> ]

\* a result with an entity and a form field of the first page for the same box
BothTokens == << "55000.00", "Wages, tips, other compensation", "54000.00" >>

BothPayload ==
  [ text |-> JoinLines(BothTokens),
    entities |-> << TokenEntity(BothTokens, "wages_tips_other_compensation", 1, <<80>>) >>,
    pages |-> << [formFields |-> << TokenField(BothTokens, 2, 3, <<70>>) >>] >> ]

\* a form parser's result: labelled values on two pages
FormTokens ==
  << "Federal income tax withheld", "1200", "Interest income", "10.00", "Payer's TIN",
     "12-3456789" >>

FormPayload ==
  [ text |-> JoinLines(FormTokens),
    entities |-> <<>>,
    pages |-> << [formFields |-> << TokenField(FormTokens, 1, 2, <<>>),
                                    TokenField(FormTokens, 3, 4, <<60>>) >>],
                 [formFields |-> << TokenField(FormTokens, 5, 6, <<30>>) >>] >> ]

\* labels that match several canonical names, and two labels for one name
FuzzyTokens ==
  << "Payer name", "First Bank", "Name", "Second Bank", "Recipient TIN and payer TIN",
     "98-7654321", "Tax", "15.00" >>

FuzzyPayload ==
  [ text |-> JoinLines(FuzzyTokens),
    entities |-> <<>>,
    pages |-> << [formFields |-> << TokenField(FuzzyTokens, 1, 2, <<50>>),
                                    TokenField(FuzzyTokens, 3, 4, <<100>>),
                                    TokenField(FuzzyTokens, 5, 6, <<>>),
                                    TokenField(FuzzyTokens, 7, 8, <<>>) >>] >> ]

\* a result that reports no confidence, with a field that has no label
BareTokens == << "Recipient name", "Jane Doe", "stray", "---", "n/a" >>

BarePayload ==
  [ text |-> JoinLines(BareTokens),
    entities |-> << TokenEntity(BareTokens, "employee_name", 2, <<>>) >>,
    pages |-> << [formFields |->
                    << TokenField(BareTokens, 1, 2, <<>>),
                       TokenField(BareTokens, 4, 5, <<>>),
                       [ fieldName |-> <<>>,
                         fieldValue |-> << [textAnchor |-> TokenAnchor(BareTokens, 3),
                                            confidence |-> <<>>] >> ] >>] >> ]

\* a result without text, entities or pages
EmptyPayload == [text |-> "", entities |-> <<>>, pages |-> <<>>]

\* the raw payloads handed to the normalizer
RawPayloads ==
  {EntityPayload, BothPayload, FormPayload, FuzzyPayload, BarePayload, EmptyPayload}

\* the documentTypes handed to the normalizer
NormalizedTypes ==
  {"W2", "FORM_1099_INT", "FORM_1099_DIV", "FORM_1099_MISC", "FORM_1099_NEC", "UNKNOWN"}

\* a call of transformToTaxData(document, documentType)
CallTransformToTaxData ==
  /\ Len(calls) < MaxCalls
  /\ \E document \in RawPayloads, documentType \in NormalizedTypes :
       calls' = Append(calls, [fn |-> "transformToTaxData", document |-> document,
                               documentType |-> documentType,
                               result |-> transformToTaxData(document, documentType)])
  /\ UNCHANGED <<ui, env, documents, files, requests>>

\* a call of processWithLLM(document) whose content parses
CallProcessWithLLM ==
  /\ Len(calls) < MaxCalls
  /\ \E document \in {ExistingDocuments[i] : i \in 1..Len(ExistingDocuments)},
        parsedContent \in LLMContents :
       calls' = Append(calls, [fn |-> "processWithLLM", document |-> document,
                               documentType |-> document.documentType,
                               result |-> processWithLLM(document, parsedContent)])
  /\ UNCHANGED <<ui, env, documents, files, requests>>

NormNext == CallTransformToTaxData \/ CallProcessWithLLM

NormSpec == CallInit /\ [][NormNext]_vars

\* the calls of transformToTaxData logged so far
TransformCalls == {k \in 1..Len(calls) : calls[k].fn = "transformToTaxData"}

\* the value of a string field of an extractedData object
FieldOf(data, key) == Prop(data, key).s

\* the canonical field of each entity type the W2 mapping names
MappedEntityField ==
  [ employee_name |-> "employeeName", employee_ssn |-> "employeeSSN",
    employer_name |-> "employerName", employer_ein |-> "employerEIN",
    wages_tips_other_compensation |-> "wages",
    federal_income_tax_withheld |-> "federalTaxWithheld",
    social_security_wages |-> "socialSecurityWages",
    social_security_tax_withheld |-> "socialSecurityTaxWithheld",
    medicare_wages_and_tips |-> "medicareWages",
    medicare_tax_withheld |-> "medicareTaxWithheld" ]

\* C15: in the W2 normalization of a result, every entity of a mapped type
\* gives its text to its canonical field (wages_tips_other_compensation to
\* wages, and so on), and a field that no mapped entity names is left as it
\* was by the entities of other types.
C15_EntityMapping ==
  \A k \in TransformCalls :
    calls[k].documentType = "W2" =>
      LET document == calls[k].document
          data == calls[k].result.extractedData
          mapped == {i \in 1..Len(document.entities) :
                       document.entities[i].type \in DOMAIN MappedEntityField}
      IN  /\ \A i \in mapped :
               FieldOf(data, MappedEntityField[document.entities[i].type])
                 = getText(document.entities[i].textAnchor, document.text)
          /\ document.pages = <<>> =>
               \A key \in W2Fields :
                 (\A i \in mapped : MappedEntityField[document.entities[i].type] # key)
                   => FieldOf(data, key) = ""

\* the form fields of the first page that have a label and a value, as
\* [label, value] in page order
LabelledFields(document) ==
  LET fields == FirstPageFields(document)
      kept == {i \in 1..Len(fields) : ~FieldSkipped(fields[i])}
  IN  [i \in kept |->
         [ label |-> getText(fields[i].fieldName[1].textAnchor, document.text),
           value |-> getText(fields[i].fieldValue[1].textAnchor, document.text) ]]

\* the documentTypes whose canonical schema has the field federalTaxWithheld
FederalTaxTypes == {"W2", "FORM_1099_INT", "FORM_1099_DIV", "FORM_1099_MISC", "FORM_1099_NEC"}

\* C16: for every documentType whose schema has federalTaxWithheld, a form
\* field labelled "Federal income tax withheld" gives its value to
\* extractedData.federalTaxWithheld.
C16_FederalTaxWithheldLabel ==
  \A k \in TransformCalls :
    calls[k].documentType \in FederalTaxTypes =>
      LET labelled == LabelledFields(calls[k].document) IN
      \A i \in DOMAIN labelled :
        labelled[i].label = "Federal income tax withheld"
          => FieldOf(calls[k].result.extractedData, "federalTaxWithheld") = labelled[i].value

\* the canonical schema of a documentType normalized by the fuzzy matcher
SchemaOf(documentType) ==
  CASE documentType = "FORM_1099_INT" -> data1099Int
    [] documentType = "FORM_1099_DIV" -> data1099Div
    [] documentType = "FORM_1099_MISC" -> data1099Misc
    [] documentType = "FORM_1099_NEC" -> data1099Nec
    [] OTHER -> genericData

\* the normalized name of field i of the schema is a substring of the
\* normalized label, or the normalized label a substring of the name
NameMatchesLabel(schema, i, label) ==
  \/ Includes(Normalize(label), Normalize(schema[i].k))
  \/ Includes(Normalize(schema[i].k), Normalize(label))

\* the first field of the schema, in declaration order, that matches the
\* label; 0 when none does
FirstMatchingField(schema, label) ==
  LET matching == {i \in 1..Len(schema) : NameMatchesLabel(schema, i, label)} IN
  IF matching = {} THEN 0 ELSE CHOOSE i \in matching : \A j \in matching : i <= j

\* C17: the fuzzy matcher assigns each label to the first canonical field, in
\* declaration order, that matches it and to no other; a field keeps the
\* value of the earliest form field assigned to it, later form fields that
\* match it do not overwrite it, and a field no label is assigned to is left
\* as it was.
C17_FirstMatchNoOverwrite ==
  \A k \in TransformCalls :
    calls[k].documentType # "W2" =>
      LET schema == SchemaOf(calls[k].documentType)
          labelled == LabelledFields(calls[k].document)
          data == calls[k].result.extractedData
      IN  \A f \in 1..Len(schema) :
            LET assigned == {i \in DOMAIN labelled :
                               FirstMatchingField(schema, labelled[i].label) = f}
            IN  IF assigned = {} THEN data[f] = schema[f]
                ELSE data[f] = PS(schema[f].k,
                                  labelled[CHOOSE i \in assigned : \A j \in assigned : i <= j].value)

RECURSIVE SumOf(_)
\* the sum of a sequence of numbers
SumOf(scores) == IF scores = <<>> THEN 0 ELSE scores[1] + SumOf(Tail(scores))

RECURSIVE FieldScores(_)
\* the confidence scores reported on the values of a sequence of form fields
FieldScores(fields) ==
  IF fields = <<>> THEN <<>>
  ELSE (IF fields[1].fieldValue = <<>> THEN <<>> ELSE fields[1].fieldValue[1].confidence)
         \o FieldScores(Tail(fields))

RECURSIVE EntityScores(_)
\* the confidence scores reported on a sequence of entities
EntityScores(entities) ==
  IF entities = <<>> THEN <<>> ELSE entities[1].confidence \o EntityScores(Tail(entities))

RECURSIVE PageScores(_)
\* the confidence scores reported on the form fields of a sequence of pages
PageScores(pages) ==
  IF pages = <<>> THEN <<>> ELSE FieldScores(pages[1].formFields) \o PageScores(Tail(pages))

\* every confidence score a payload reports, in hundredths
ReportedScores(document) == EntityScores(document.entities) \o PageScores(document.pages)

\* C18: the confidence of a primary result is the arithmetic mean of the
\* scores reported on the entities and on the form-field values of every
\* page, exactly zero when none is reported, and between 0 and 1 when every
\* score is; the confidence of a secondary result is 0.85.
C18_ConfidenceIsMean ==
  \A k \in 1..Len(calls) :
    LET confidence == calls[k].result.confidence IN
    IF calls[k].fn = "transformToTaxData"
    THEN LET scores == ReportedScores(calls[k].document) IN
         /\ confidence.den > 0
         /\ scores = <<>> => confidence.num = 0
         /\ scores # <<>> => confidence.num * Len(scores) = SumOf(scores) * confidence.den
         /\ (\A i \in 1..Len(scores) : 0 <= scores[i] /\ scores[i] <= 100)
              => (0 <= confidence.num /\ confidence.num <= 100 * confidence.den)
    ELSE confidence.num = 85 * confidence.den

\* a result with scores on two pages and a value without score, whose mean
\* is 0.45, a result without any score, and a result of the secondary provider
C18_Witness ==
  /\ Len(calls) = 3
  /\ calls[1].fn = "transformToTaxData" /\ calls[1].document = FormPayload
  /\ calls[1].result.confidence = [num |-> 90, den |-> 2]
  /\ calls[2].fn = "transformToTaxData" /\ calls[2].document = BarePayload
  /\ calls[2].result.confidence.num = 0
  /\ calls[3].fn = "processWithLLM"

MaxScenarios == 2
\* the latest value of Date.now() in a behaviour
MaxClock == 2

\* the standard deduction of a filing status
StandardDeduction(filingStatus) ==
  IF filingStatus = "MARRIED_FILING_JOINTLY" THEN 27700 ELSE 13850

\* the tax on a taxable income: three brackets of 10, 12 and 22 percent
TaxOn(taxable, filingStatus) ==
  LET width == IF filingStatus = "MARRIED_FILING_JOINTLY" THEN 2 ELSE 1
      first == 11000 * width
      second == 44725 * width
  IN  IF taxable <= first THEN (taxable * 10) \div 100
      ELSE IF taxable <= second THEN (first * 10 + (taxable - first) * 12) \div 100
      ELSE (first * 10 + (second - first) * 12 + (taxable - second) * 22) \div 100

\* the liability at an income under a deduction, less a credit per dependent
TaxLiability(income, filingStatus, deduction, dependents) ==
  Max(0, TaxOn(Max(0, income - deduction), filingStatus) - 2000 * dependents)

\* calculateDeductionComparison(income, filingStatus, itemizedDeductions, dependents)
calculateDeductionComparison(income, filingStatus, itemizedDeductions, dependents) ==
  LET standardTaxLiability ==
        TaxLiability(income, filingStatus, StandardDeduction(filingStatus), dependents)
      itemizedTaxLiability == TaxLiability(income, filingStatus, itemizedDeductions, dependents)
  IN  [ standardTaxLiability |-> standardTaxLiability,
        itemizedTaxLiability |-> itemizedTaxLiability,
        recommendedMethod |-> IF itemizedTaxLiability < standardTaxLiability
                              THEN "itemized" ELSE "standard" ]

\* the liability under the recommended method of a comparison
RecommendedLiability(comparison) ==
  IF comparison.recommendedMethod = "itemized"
  THEN comparison.itemizedTaxLiability ELSE comparison.standardTaxLiability

\* calculateTaxImpactScenarios(income, filingStatus, itemizedDeductions,
\* dependents): the baseline and one named scenario of 5000 more
calculateTaxImpactScenarios(income, filingStatus, itemizedDeductions, dependents) ==
  LET base == RecommendedLiability(
                calculateDeductionComparison(income, filingStatus, itemizedDeductions, dependents))
      more == RecommendedLiability(
                calculateDeductionComparison(income, filingStatus, itemizedDeductions + 5000,
                                             dependents))
  IN  << [ scenario |-> "Current Situation", itemizedDeductions |-> itemizedDeductions,
           taxLiability |-> base, savings |-> 0, custom |-> FALSE, id |-> "" ],
         [ scenario |-> "Additional Deductions", itemizedDeductions |-> itemizedDeductions + 5000,
           taxLiability |-> more, savings |-> base - more, custom |-> FALSE, id |-> "" ] >>

RECURSIVE ParseDigits(_, _)
\* the number written by the decimal digits of s, after the digits of value acc
ParseDigits(s, acc) ==
  IF s = "" THEN acc
  ELSE LET d == CHOOSE n \in 0..9 : ToString(n) = SubSeq(s, 1, 1)
       IN  ParseDigits(SubSeq(s, 2, Len(s)), 10 * acc + d)

\* parseFloat(s) of a string that writes a whole number
ParseFloat(s) ==
  IF SubSeq(s, 1, 1) = "-" THEN 0 - ParseDigits(SubSeq(s, 2, Len(s)), 0)
  ELSE ParseDigits(s, 0)

\* Math.max(0, parseFloat(String(adjustedGrossIncome || 0)))
safeAdjustedGrossIncome(props) == Max(0, props.adjustedGrossIncome)
\* Math.max(0, parseFloat(String(currentItemizedDeductions || 0)))
safeCurrentItemizedDeductions(props) == Max(0, props.currentItemizedDeductions)
\* filingStatus || 'SINGLE'
safeFilingStatus(props) == IF props.filingStatus = "" THEN "SINGLE" ELSE props.filingStatus
\* Math.max(safeAdjustedGrossIncome, 50000)
minIncomeForCalculation(props) == Max(safeAdjustedGrossIncome(props), 50000)

\* the calculation of a scenario from its additional amount alone
customCalculationAmountOnly(props, baseScenarios, scenario) ==
  LET newComparison ==
        calculateDeductionComparison(minIncomeForCalculation(props), safeFilingStatus(props),
                                     scenario.additionalAmount, props.dependents)
      baseTaxLiability == IF baseScenarios = <<>> THEN 0 ELSE baseScenarios[1].taxLiability
      newTaxLiability == IF newComparison.recommendedMethod = "itemized"
                         THEN newComparison.itemizedTaxLiability
                         ELSE newComparison.standardTaxLiability
  IN  [ scenario |-> scenario.name,
        itemizedDeductions |-> scenario.additionalAmount,
        taxLiability |-> newTaxLiability,
        savings |-> baseTaxLiability - newTaxLiability,
        custom |-> TRUE,
        id |-> scenario.id ]

\* the body of customScenarios.map (part_001:538-559), without the
\* description shown to the user
customCalculation(props, baseScenarios, scenario) ==
  LET newComparison ==
        calculateDeductionComparison(minIncomeForCalculation(props), safeFilingStatus(props),
                                     safeCurrentItemizedDeductions(props) + scenario.additionalAmount,
                                     props.dependents)
      baseTaxLiability == IF baseScenarios = <<>> THEN 0 ELSE baseScenarios[1].taxLiability
      newTaxLiability == IF newComparison.recommendedMethod = "itemized"
                         THEN newComparison.itemizedTaxLiability
                         ELSE newComparison.standardTaxLiability
  IN  [ scenario |-> scenario.name,
        itemizedDeductions |-> safeCurrentItemizedDeductions(props) + scenario.additionalAmount,
        taxLiability |-> newTaxLiability,
        savings |-> baseTaxLiability - newTaxLiability,
        custom |-> TRUE,
        id |-> scenario.id ]

\* the effect that recomputes calculations (part_001:519-564)
Calculations(props, customScenarios) ==
  LET baseScenarios ==
        calculateTaxImpactScenarios(minIncomeForCalculation(props), safeFilingStatus(props),
                                    safeCurrentItemizedDeductions(props), props.dependents)
  IN  baseScenarios \o [i \in 1..Len(customScenarios) |->
                          customCalculation(props, baseScenarios, customScenarios[i])]

\* the props the component is mounted with (dependents: their number)
ScenarioProps ==
  [ adjustedGrossIncome : {-1000, 0, 50000, 90000},
    currentItemizedDeductions : {-500, 0, 12000},
    filingStatus : {"", "SINGLE", "MARRIED_FILING_JOINTLY"},
    dependents : {0, 1} ]

\* what the user types in an amount field
AmountInputs == {"", "0", "5000", "20000", "-5000"}

\* the component after its first render and effects
ScenarioInit ==
  /\ env = [n \in EnvNames |-> FALSE]
  /\ documents = <<>>
  /\ files = {}
  /\ requests = [r \in Reqs |-> IdleRequest]
  /\ calls = <<>>
  /\ \E props \in ScenarioProps :
       ui = [ component |-> "InteractiveWhatIfScenarios", props |-> props,
              customScenarios |-> <<>>, calculations |-> Calculations(props, <<>>),
              now |-> 1 ]

\* setCustomScenarios(scenarios) at time now, and the effect it triggers
SetCustomScenarios(scenarios, now) ==
  ui' = [ui EXCEPT !.customScenarios = scenarios, !.now = now,
                   !.calculations = Calculations(ui.props, scenarios)]

\* handleAddCustomScenario with the form as the user filled it
handleAddCustomScenario ==
  /\ Len(ui.customScenarios) < MaxScenarios
  /\ \E name \in {"", "Donation"}, additionalAmount \in AmountInputs,
        deductionType \in {"CHARITABLE_CONTRIBUTIONS", "MORTGAGE_INTEREST"},
        now \in ui.now..MaxClock :
       IF name = "" \/ additionalAmount = "" THEN UNCHANGED ui
       ELSE SetCustomScenarios(
              Append(ui.customScenarios,
                     [ id |-> ToString(now), name |-> name,
                       additionalAmount |-> ParseFloat(additionalAmount),
                       deductionType |-> deductionType ]), now)
  /\ UNCHANGED <<env, documents, files, requests, calls>>

\* handleRemoveCustomScenario(id)
handleRemoveCustomScenario ==
  /\ \E i \in 1..Len(ui.customScenarios) :
       SetCustomScenarios(SelectSeq(ui.customScenarios,
                                    LAMBDA s : s.id # ui.customScenarios[i].id), ui.now)
  /\ UNCHANGED <<env, documents, files, requests, calls>>

\* handleQuickCalculation with the quick amount as the user typed it
handleQuickCalculation ==
  /\ Len(ui.customScenarios) < MaxScenarios
  /\ \E quickAmount \in AmountInputs, now \in ui.now..MaxClock :
       IF quickAmount = "" THEN UNCHANGED ui
       ELSE SetCustomScenarios(
              Append(ui.customScenarios,
                     [ id |-> "quick-" \o ToString(now),
                       name |-> "Quick Test: $" \o quickAmount,
                       additionalAmount |-> ParseFloat(quickAmount),
                       deductionType |-> "OTHER_DEDUCTIONS" ]), now)
  /\ UNCHANGED <<env, documents, files, requests, calls>>

ScenarioNext == handleAddCustomScenario \/ handleRemoveCustomScenario \/ handleQuickCalculation

ScenarioSpec == ScenarioInit /\ [][ScenarioNext]_vars

\* C20: each custom scenario is recomputed at the income, filing status and
\* dependents of the baseline with itemized deductions = the current
\* itemized total + its additionalAmount; its liability is the lower of the
\* standard and itemized liabilities, its savings are the baseline liability
\* minus that liability, and a scenario of additionalAmount 0 saves 0.
C20_CustomScenarioSavings ==
  LET props == ui.props
      income == Max(Max(0, props.adjustedGrossIncome), 50000)
      filingStatus == IF props.filingStatus = "" THEN "SINGLE" ELSE props.filingStatus
      current == Max(0, props.currentItemizedDeductions)
      baseline == ui.calculations[1]
      first == Len(ui.calculations) - Len(ui.customScenarios)
  IN  /\ first >= 1
      /\ baseline.taxLiability =
           Min(TaxLiability(income, filingStatus, StandardDeduction(filingStatus), props.dependents),
               TaxLiability(income, filingStatus, current, props.dependents))
      /\ \A i \in 1..Len(ui.customScenarios) :
           LET scenario == ui.customScenarios[i]
               calculation == ui.calculations[first + i]
               itemized == current + scenario.additionalAmount
               standardTax == TaxLiability(income, filingStatus,
                                           StandardDeduction(filingStatus), props.dependents)
               itemizedTax == TaxLiability(income, filingStatus, itemized, props.dependents)
           IN  /\ calculation.custom /\ calculation.id = scenario.id
               /\ calculation.itemizedDeductions = itemized
               /\ calculation.taxLiability = Min(standardTax, itemizedTax)
               /\ calculation.savings = baseline.taxLiability - calculation.taxLiability
               /\ scenario.additionalAmount = 0 => calculation.savings = 0

\* income 50000, SINGLE, itemized 12000: a scenario of 5000 more that saves
\* tax and a scenario of 0 that saves nothing
C20_Witness ==
  /\ ui.props.adjustedGrossIncome = 50000 /\ ui.props.filingStatus = "SINGLE"
  /\ ui.props.currentItemizedDeductions = 12000
  /\ Len(ui.customScenarios) = 2
  /\ ui.customScenarios[1].additionalAmount = 5000
  /\ ui.customScenarios[2].additionalAmount = 0
  /\ ui.calculations[3].itemizedDeductions = 17000
  /\ ui.calculations[3].savings > 0
  /\ ui.calculations[4].savings = 0

\* C21: every monetary value passed to the liability computations is
\* non-negative: the income and the current itemized total are clamped to at
\* least 0, every scenario held in state has additionalAmount >= 0, and so
\* the itemized deductions every calculation was computed with are >= 0.
C21_MonetaryInputsNonNegative ==
  /\ safeAdjustedGrossIncome(ui.props) >= 0
  /\ safeCurrentItemizedDeductions(ui.props) >= 0
  /\ minIncomeForCalculation(ui.props) >= 0
  /\ \A i \in 1..Len(ui.customScenarios) : ui.customScenarios[i].additionalAmount >= 0
  /\ \A i \in 1..Len(ui.calculations) : ui.calculations[i].itemizedDeductions >= 0

\* the text the entities of a result give to a W2 field: that of the last
\* entity mapped to it, "" when no entity is
EntityValue(document, key) ==
  LET naming == {i \in 1..Len(document.entities) :
                   /\ document.entities[i].type \in DOMAIN MappedEntityField
                   /\ MappedEntityField[document.entities[i].type] = key}
  IN  IF naming = {} THEN ""
      ELSE LET last == CHOOSE i \in naming : \A j \in naming : j <= i
           IN  getText(document.entities[last].textAnchor, document.text)

\* C24: in the W2 normalization form fields are a fallback only: a field
\* that received a value from an entity keeps that value, and a field the
\* entities left empty is empty or holds the value of a form field of the
\* first page.
C24_FormFieldsOnlyFallback ==
  \A k \in TransformCalls :
    calls[k].documentType = "W2" =>
      LET document == calls[k].document
          data == calls[k].result.extractedData
          labelled == LabelledFields(document)
      IN  \A key \in W2Fields :
            IF EntityValue(document, key) # ""
            THEN FieldOf(data, key) = EntityValue(document, key)
            ELSE \/ FieldOf(data, key) = ""
                 \/ \E i \in DOMAIN labelled : FieldOf(data, key) = labelled[i].value

\* process request r holds a provider result
HasResult(r) == requests[r].kind = "process" /\ requests[r].extractedTaxData # <<>>

\* C23: a process request for a Document its caller owns is let through to
\* the PROCESSING update whatever the record's processingStatus (another
\* request may be running), and in every state the record's ocrText and
\* extractedData are both absent or both the output of one single request.
C23_ConcurrentResultsNotMixed ==
  [][ /\ \A r \in Reqs :
           ( /\ requests[r].kind = "none" /\ requests'[r].kind = "process"
             /\ DocumentFound(documents, requests'[r].id, requests'[r].caller)
             /\ requests'[r].failure = "" )
             => requests'[r].pc = "setProcessing"
      /\ \A d \in 1..Len(documents') :
           \/ documents'[d].ocrText = <<>> /\ documents'[d].extractedData = <<>>
           \/ \E r \in Reqs :
                /\ requests'[r].kind = "process" /\ requests'[r].extractedTaxData # <<>>
                /\ requests'[r].id = d
                /\ documents'[d].ocrText = <<requests'[r].extractedTaxData[1].ocrText>>
                /\ documents'[d].extractedData
                     = <<Envelope(requests'[r].extractedTaxData[1])>>
    ]_vars

\* two requests for the same Document run at once with different results;
\* the first has saved its result while the second is still streaming
C23_Witness ==
  \E r1, r2 \in ProcessReqs :
    /\ r1 # r2 /\ requests[r1].id = requests[r2].id
    /\ HasResult(r1) /\ HasResult(r2)
    /\ requests[r1].extractedTaxData[1].ocrText # requests[r2].extractedTaxData[1].ocrText
    /\ requests[r1].pc = "finish" /\ requests[r2].pc \in {"chunks", "save"}
    /\ documents[requests[r1].id].processingStatus = "COMPLETED"
    /\ documents[requests[r1].id].extractedData = <<Envelope(requests[r1].extractedTaxData[1])>>

\* the events of request r include the end-of-stream marker
DoneEmitted(rec) == \E k \in 1..Len(rec.events) : rec.events[k] = DoneEvent

\* C25: a request emits [DONE] only after its own update has persisted
\* COMPLETED with ocrText and extractedData; once [DONE] is emitted the record
\* keeps its ocrText and extractedData, and it is PROCESSING only when another
\* request for the same Document has set PROCESSING again.
C25_DoneAfterPersisted ==
  [][ \A r \in Reqs :
        /\ (~DoneEmitted(requests[r]) /\ DoneEmitted(requests'[r])) =>
             /\ requests[r].writes # <<>>
             /\ requests[r].writes[Len(requests[r].writes)] = "COMPLETED"
             /\ documents[requests[r].id].ocrText # <<>>
             /\ documents[requests[r].id].extractedData # <<>>
        /\ DoneEmitted(requests'[r]) =>
             LET d == documents'[requests'[r].id] IN
             /\ d.ocrText # <<>> /\ d.extractedData # <<>>
             /\ d.processingStatus # "PENDING"
             /\ d.processingStatus = "PROCESSING" =>
                  \E q \in Reqs \ {r} :
                    /\ requests'[q].kind = "process" /\ requests'[q].id = requests'[r].id
                    /\ requests'[q].writes # <<>>
                    /\ requests'[q].writes[Len(requests'[q].writes)] = "PROCESSING"
        /\ ( /\ DoneEmitted(requests[r])
             /\ documents[requests[r].id].processingStatus # "PROCESSING"
             /\ documents'[requests[r].id].processingStatus = "PROCESSING" ) =>
             \E q \in Reqs \ {r} :
               /\ requests[q].pc = "setProcessing" /\ requests[q].id = requests[r].id
               /\ requests'[q].writes = Append(requests[q].writes, "PROCESSING")
    ]_vars

\* a consumer has received [DONE] and the record is COMPLETED with the
\* result of that request
C25_Witness ==
  \E r \in ProcessReqs :
    /\ DoneEmitted(requests[r]) /\ requests[r].stream = "closed"
    /\ documents[requests[r].id].processingStatus = "COMPLETED"
    /\ documents[requests[r].id].extractedData = <<Envelope(requests[r].extractedTaxData[1])>>
    /\ \E q \in ProcessReqs \ {r} : requests[q].id = requests[r].id /\ requests[q].pc = "done"

\* the process requests that wrote to Document d
WritersOf(d) == {r \in ProcessReqs : requests[r].id = d /\ requests[r].writes # <<>>}

\* C26: a process request that set PROCESSING and has finished wrote
\* COMPLETED or FAILED after it, and a Document whose process requests have
\* all finished is COMPLETED or FAILED, never left at PROCESSING.
C26_NeverLeftProcessing ==
  /\ \A r \in ProcessReqs :
       (requests[r].pc = "done" /\ requests[r].writes # <<>>) =>
         requests[r].writes[Len(requests[r].writes)] \in Terminal
  /\ \A d \in 1..Len(documents) :
       (WritersOf(d) # {} /\ \A r \in WritersOf(d) : requests[r].pc = "done") =>
         documents[d].processingStatus \in Terminal

\* the same, for the requests whose catch block's own update was not rejected
C26_NeverLeftProcessingCatchSaved ==
  /\ \A r \in ProcessReqs :
       (requests[r].pc = "done" /\ requests[r].writes # <<>> /\ ~requests[r].catchThrew) =>
         requests[r].writes[Len(requests[r].writes)] \in Terminal
  /\ \A d \in 1..Len(documents) :
       ( /\ WritersOf(d) # {}
         /\ \A r \in WritersOf(d) : requests[r].pc = "done" /\ ~requests[r].catchThrew ) =>
         documents[d].processingStatus \in Terminal

\* C27: every Document record's filePath names a stored file, and once the
\* upload requests have ended (with whatever response) every stored file is
\* the file of exactly one Document record.
C27_FilesMatchRecords ==
  /\ \A d \in 1..Len(documents) : documents[d].filePath \in files
  /\ (\A r \in UploadReqs : requests[r].pc = "done") =>
       /\ \A f \in files : \E d \in 1..Len(documents) : documents[d].filePath = f
       /\ \A d, e \in 1..Len(documents) : documents[d].filePath = documents[e].filePath => d = e

(***************************************************************************)
(* The auto-save of PersonalInfoStep (src/unnamed/part_001:35-93).  The    *)
(* form data is the number of the edit that produced it; time advances in  *)
(* seconds; the parent that owns hasUnsavedChanges and autoSaving is the   *)
(* environment.  A pending timer is the closure of the effect that set it. *)
(***************************************************************************)
\* edits of the form in a behaviour
MaxEdits == 3
\* calls of onAutoSave in a behaviour
MaxSaves == 2
\* the delay of the auto-save timer, 2000 ms, in seconds
AutoSaveDelay == 2

\* setTimeout(() => {...}, 2000) in a render with these values
NewTimer(formData, hasUnsavedChanges, autoSaving) ==
  [ formData |-> formData, hasUnsavedChanges |-> hasUnsavedChanges,
    autoSaving |-> autoSaving, age |-> 0 ]

\* an effect that sets its timer and has no cleanup
RunEffectNoCleanup(timers, formData, hasUnsavedChanges, autoSaving) ==
  Append(timers, NewTimer(formData, hasUnsavedChanges, autoSaving))

\* a change of a dependency of the effect: the cleanup of the previous run
\* clears its timer, the new run sets one (part_001:63-72)
RunEffect(timers, formData, hasUnsavedChanges, autoSaving) ==
  << NewTimer(formData, hasUnsavedChanges, autoSaving) >>

\* the component after its first render and effect
AutoSaveInit ==
  /\ env = [n \in EnvNames |-> FALSE]
  /\ documents = <<>>
  /\ files = {}
  /\ requests = [r \in Reqs |-> IdleRequest]
  /\ calls = <<>>
  /\ \E hasUnsavedChanges \in BOOLEAN, autoSaving \in BOOLEAN :
       ui = [ component |-> "PersonalInfoStep", formData |-> 0,
              hasUnsavedChanges |-> hasUnsavedChanges, autoSaving |-> autoSaving,
              timers |-> RunEffect(<<>>, 0, hasUnsavedChanges, autoSaving),
              sinceChange |-> 0, saves |-> 0, lastSave |-> <<>> ]

\* a render with new values, and the effect it re-runs
Rerender(formData, hasUnsavedChanges, autoSaving, sinceChange) ==
  ui' = [ui EXCEPT !.formData = formData, !.hasUnsavedChanges = hasUnsavedChanges,
                   !.autoSaving = autoSaving, !.sinceChange = sinceChange,
                   !.timers = RunEffect(ui.timers, formData, hasUnsavedChanges, autoSaving)]

\* handleChange(field, value): setFormData and onMarkUnsaved(), after which
\* the parent may render the component with hasUnsavedChanges
handleChange ==
  /\ ui.formData < MaxEdits
  /\ \E hasUnsavedChanges \in {ui.hasUnsavedChanges, TRUE} :
       Rerender(ui.formData + 1, hasUnsavedChanges, ui.autoSaving, 0)
  /\ UNCHANGED <<env, documents, files, requests, calls>>

\* the parent renders the component with other props, or with the same
\* props and a new onAutoSave
ParentRenders ==
  /\ \E hasUnsavedChanges \in BOOLEAN, autoSaving \in BOOLEAN :
       Rerender(ui.formData, hasUnsavedChanges, autoSaving, ui.sinceChange)
  /\ UNCHANGED <<env, documents, files, requests, calls>>

\* one second passes
Tick ==
  /\ ui' = [ui EXCEPT !.sinceChange = Min(@ + 1, AutoSaveDelay),
                      !.timers = [k \in 1..Len(ui.timers) |->
                                    [ui.timers[k] EXCEPT !.age = Min(@ + 1, AutoSaveDelay)]]]
  /\ UNCHANGED <<env, documents, files, requests, calls>>

\* a call of onAutoSave(formData), with the state it was made in
SaveCall(by, formData) ==
  [ by |-> by, formData |-> formData, current |-> ui.formData,
    hasUnsavedChanges |-> ui.hasUnsavedChanges, autoSaving |-> ui.autoSaving,
    sinceChange |-> ui.sinceChange, pending |-> Len(ui.timers) ]

\* the callback of a timer that is due (part_001:64-68)
TimerFires ==
  /\ \E k \in 1..Len(ui.timers) :
       LET timer == ui.timers[k]
           rest == SubSeq(ui.timers, 1, k - 1) \o SubSeq(ui.timers, k + 1, Len(ui.timers))
       IN  /\ timer.age >= AutoSaveDelay
           /\ IF timer.hasUnsavedChanges /\ ~timer.autoSaving
              THEN /\ ui.saves < MaxSaves
                   /\ ui' = [ui EXCEPT !.timers = rest, !.saves = @ + 1,
                                       !.lastSave = <<SaveCall("timer", timer.formData)>>]
              ELSE ui' = [ui EXCEPT !.timers = rest]
  /\ UNCHANGED <<env, documents, files, requests, calls>>

\* handleSaveOnly (part_001:91-93)
handleSaveOnly ==
  /\ ui.saves < MaxSaves
  /\ ui' = [ui EXCEPT !.saves = @ + 1, !.lastSave = <<SaveCall("button", ui.formData)>>]
  /\ UNCHANGED <<env, documents, files, requests, calls>>

AutoSaveNext == handleChange \/ ParentRenders \/ Tick \/ TimerFires \/ handleSaveOnly

AutoSaveSpec == AutoSaveInit /\ [][AutoSaveNext]_vars

\* C30: at most one auto-save timer is pending; a change of the form data
\* leaves exactly one pending timer, new and holding the changed data; and a
\* call of onAutoSave by the timer is made 2 seconds or more after the last
\* form change, with hasUnsavedChanges true and autoSaving false, and with
\* the latest form data.
C30_DebouncedAutoSave ==
  [][ /\ Len(ui'.timers) <= 1
      /\ ui'.formData # ui.formData =>
           /\ Len(ui'.timers) = 1
           /\ ui'.timers[1].age = 0 /\ ui'.timers[1].formData = ui'.formData
      /\ (ui'.saves # ui.saves /\ ui'.lastSave[1].by = "timer") =>
           LET save == ui'.lastSave[1] IN
           /\ save.sinceChange >= AutoSaveDelay
           /\ save.hasUnsavedChanges /\ ~save.autoSaving
           /\ save.formData = save.current
           /\ save.pending = 1
    ]_vars

\* the timer saved the third edit after the first and second edits' timers
\* were cancelled
C30_Witness ==
  /\ ui.formData = 3 /\ ui.saves = 1
  /\ ui.lastSave # <<>> /\ ui.lastSave[1].by = "timer" /\ ui.lastSave[1].formData = 3
  /\ ui.timers = <<>>

(***************************************************************************)
(* The DocumentProcessor client component (src/unnamed/part_002:29-231)    *)
(* and its consumption of the process route's event stream.  The stream    *)
(* carries the bytes the route enqueues (ContentEvent, DoneEvent); the     *)
(* transport delivers them in reads of any size.  The text is ASCII, so a  *)
(* byte is a character.  A parsed result is written as its JSON text.      *)
(***************************************************************************)
\* runs of processDocument in a behaviour
MaxRuns == 2

\* the character of s at position i, "" outside s
CharAt(s, i) == IF i \in 1..Len(s) THEN SubSeq(s, i, i) ELSE ""

RECURSIVE SplitLines(_)
\* s.split('\n') (by halves)
SplitLines(s) ==
  IF s = "" THEN <<"">>
  ELSE IF Len(s) = 1 THEN (IF s = "\n" THEN <<"", "">> ELSE <<s>>)
  ELSE LET h == Len(s) \div 2
           a == SplitLines(SubSeq(s, 1, h))
           b == SplitLines(SubSeq(s, h + 1, Len(s)))
       IN  SubSeq(a, 1, Len(a) - 1) \o << a[Len(a)] \o b[1] >> \o SubSeq(b, 2, Len(b))

\* the position after the string literal of s that opens at position i, 0
\* when no literal opens there or it is not closed
StringEnd(s, i) ==
  IF CharAt(s, i) # "\"" THEN 0
  ELSE LET closing == {k \in (i + 1)..Len(s) :
                         SubSeq(s, k, k) = "\"" /\ BackslashRun(s, k - 1) % 2 = 0}
       IN  IF closing = {} THEN 0
           ELSE (CHOOSE k \in closing : \A j \in closing : k <= j) + 1

RECURSIVE ValueEnd(_, _)
RECURSIVE MembersEnd(_, _)
\* the position after the JSON value of s that starts at position i, 0 when
\* there is none; a value is a string or an object of such values, the
\* grammar of what JSON.stringify produced on the other side
ValueEnd(s, i) ==
  IF CharAt(s, i) = "\"" THEN StringEnd(s, i)
  ELSE IF CharAt(s, i) = "{"
       THEN (IF CharAt(s, i + 1) = "}" THEN i + 2 ELSE MembersEnd(s, i + 1))
  ELSE 0

\* the position after the closing brace of an object whose next member
\* starts at position i, 0 when the members are malformed
MembersEnd(s, i) ==
  LET k == StringEnd(s, i) IN
  IF k = 0 \/ CharAt(s, k) # ":" THEN 0
  ELSE LET v == ValueEnd(s, k + 1) IN
       IF v = 0 THEN 0
       ELSE IF CharAt(s, v) = "," THEN MembersEnd(s, v + 1)
       ELSE IF CharAt(s, v) = "}" THEN v + 1
       ELSE 0

\* JSON.parse(s) returns (it throws otherwise)
JsonParses(s) == s # "" /\ ValueEnd(s, 1) = Len(s) + 1

ContentOpen == "{\"content\":\""
ContentClose == "\"}"

\* JSON.parse(data).content for the data of a line: <<content>>, or <<>>
\* when JSON.parse throws; the only JSON values a line of this stream can
\* carry are the route's {"content": chunk} objects
ParseContent(data) ==
  LET body == SubSeq(data, Len(ContentOpen) + 1, Len(data) - Len(ContentClose)) IN
  IF /\ Len(data) >= Len(ContentOpen) + Len(ContentClose)
     /\ SubSeq(data, 1, Len(ContentOpen)) = ContentOpen
     /\ SubSeq(data, Len(data) - Len(ContentClose) + 1, Len(data)) = ContentClose
     /\ BackslashRun(body, Len(body)) % 2 = 0
     /\ \A k \in 1..Len(body) : SubSeq(body, k, k) = "\"" => BackslashRun(body, k - 1) % 2 = 1
  THEN << UnescapeJson(body) >>
  ELSE <<>>

RECURSIVE ConsumeLines(_, _, _)
\* the for loop over the lines of one read (part_002:118-152) from line k
\* on, on the locals st = [buffer, currentProgress, analyzed, outcome]
ConsumeLines(lines, k, st) ==
  IF k > Len(lines) THEN st
  ELSE LET line == lines[k]
           data == SubSeq(line, 7, Len(line))
       IN  IF Len(line) < 6 \/ SubSeq(line, 1, 6) # "data: " THEN ConsumeLines(lines, k + 1, st)
           ELSE IF data = "[DONE]"
           THEN [st EXCEPT !.outcome = IF JsonParses(st.buffer) THEN "completed" ELSE "throw"]
           ELSE LET parsed == ParseContent(data) IN
                IF parsed = <<>> THEN ConsumeLines(lines, k + 1, st)
                ELSE ConsumeLines(lines, k + 1,
                       [st EXCEPT !.buffer = @ \o parsed[1],
                                  !.currentProgress = Min(95, @ + 5),
                                  !.analyzed = TRUE])

\* what processWithLLM may hand to the stream for the uploaded W-2: its
\* results of documentType W2
ServerResults ==
  { t \in {processWithLLM(ExistingDocuments[1], c) : c \in LLMContents} :
      t.documentType = "W2" }

RECURSIVE EventBytes(_, _)
\* the content events the route enqueues for json from index i on
\* (route.ts:85-90), as one run of bytes
EventBytes(json, i) ==
  IF i >= Len(json) THEN ""
  ELSE ContentEvent(Chunk(json, i)) \o EventBytes(json, i + chunkSize)

\* the setState of the catch block that keeps the progress shown
CatchStateKeepsProgress(prev, message) ==
  [prev EXCEPT !.uploading = FALSE, !.processing = FALSE, !.status = "error",
               !.message = message, !.pc = "none"]

\* the setState of the catch block (part_002:161-171), which ends the run
CatchState(prev, message) ==
  [prev EXCEPT !.uploading = FALSE, !.processing = FALSE, !.status = "error",
               !.progress = 0, !.message = message, !.pc = "none"]

\* the initial state of the component (part_002:34-43); pc is the await the
\* run of processDocument is at, "none" when no run is in flight
ProcessorInit ==
  /\ env = [n \in EnvNames |-> FALSE]
  /\ documents = <<>>
  /\ files = {}
  /\ requests = [r \in Reqs |-> IdleRequest]
  /\ calls = <<>>
  /\ ui = [ component |-> "DocumentProcessor",
            file |-> <<>>, uploading |-> FALSE, processing |-> FALSE, progress |-> 0,
            status |-> "idle", message |-> "", document |-> <<>>, extractedData |-> <<>>,
            pc |-> "none", runs |-> 0, wire |-> "", ending |-> "", json |-> "",
            buffer |-> "", currentProgress |-> 0, sawDone |-> FALSE ]

\* disabled={state.uploading || state.processing} of FileUpload and Button
InputDisabled == ui.uploading \/ ui.processing

\* the Process Document button is rendered (part_002:211-222)
ButtonOffered == ui.file # <<>> /\ ui.status = "idle"

\* handleFileSelect(file)
handleFileSelect ==
  /\ ~InputDisabled
  /\ ui' = [ui EXCEPT !.file = <<ExistingDocuments[1].fileName>>, !.status = "idle",
                      !.message = "", !.document = <<>>, !.extractedData = <<>>]
  /\ UNCHANGED <<env, documents, files, requests, calls>>

\* handleFileRemove()
handleFileRemove ==
  /\ ~InputDisabled /\ ui.file # <<>>
  /\ ui' = [ui EXCEPT !.file = <<>>, !.status = "idle", !.message = "",
                      !.document = <<>>, !.extractedData = <<>>]
  /\ UNCHANGED <<env, documents, files, requests, calls>>

\* processDocument up to the fetch of the upload (part_002:67-82)
processDocument ==
  /\ ButtonOffered /\ ~InputDisabled
  /\ ui.pc = "none" /\ ui.runs < MaxRuns
  /\ ui' = [ui EXCEPT !.uploading = TRUE, !.status = "uploading", !.progress = 30,
                      !.message = "Uploading document...", !.pc = "upload",
                      !.runs = @ + 1, !.wire = "", !.ending = "", !.json = "",
                      !.buffer = "", !.currentProgress = 0, !.sawDone = FALSE]
  /\ UNCHANGED <<env, documents, files, requests, calls>>

\* the upload answers, up to the fetch of the process route (part_002:79-104)
UploadResponds ==
  /\ ui.pc = "upload"
  /\ \E outcome \in {"ok", "notOk", "rejects"} :
       IF outcome = "ok"
       THEN ui' = [ui EXCEPT !.document = <<ExistingDocuments[1]>>, !.uploading = FALSE,
                             !.processing = TRUE, !.status = "processing", !.progress = 50,
                             !.message = "Extracting data from document...",
                             !.pc = "process"]
       ELSE ui' = CatchState(ui, IF outcome = "notOk" THEN "Failed to upload document"
                                 ELSE "fetch failed")
  /\ UNCHANGED <<env, documents, files, requests, calls>>

\* the process route answers (part_002:102-113): not ok, or a stream that
\* the route closes after [DONE] or errors before it
ProcessResponds ==
  /\ ui.pc = "process"
  /\ \E outcome \in {"ok", "notOk", "rejects"}, result \in ServerResults,
        ending \in {"close", "error"} :
       IF outcome = "ok"
       THEN LET json == jsonResponse(result) IN
            ui' = [ui EXCEPT !.pc = "read", !.json = json, !.ending = ending,
                             !.wire = EventBytes(json, 0)
                                        \o (IF ending = "close" THEN DoneEvent ELSE ""),
                             !.buffer = "", !.currentProgress = 50]
       ELSE ui' = CatchState(ui, IF outcome = "notOk" THEN "Failed to process document"
                                 ELSE "fetch failed")
  /\ UNCHANGED <<env, documents, files, requests, calls>>

\* one turn of the read loop (part_002:115-158): reader.read() rejects,
\* reports done, or delivers the next bytes, of any number
ReaderRead ==
  /\ ui.pc = "read"
  /\ \/ /\ ui.ending = "error"
        /\ ui' = CatchState(ui, "stream error")
     \/ /\ ui.wire = "" /\ ui.ending = "close"
        /\ ui' = [ui EXCEPT !.pc = "none"]
     \/ \E n \in 1..Len(ui.wire) :
          LET chunk == SubSeq(ui.wire, 1, n)
              st == ConsumeLines(SplitLines(chunk), 1,
                                 [ buffer |-> ui.buffer, currentProgress |-> ui.currentProgress,
                                   analyzed |-> FALSE, outcome |-> "reading" ])
              read == [ui EXCEPT !.wire = SubSeq(ui.wire, n + 1, Len(ui.wire)),
                                 !.buffer = st.buffer,
                                 !.currentProgress = st.currentProgress]
          IN  IF st.outcome = "completed"
              THEN ui' = [read EXCEPT !.processing = FALSE, !.status = "completed",
                                      !.progress = 100,
                                      !.message = "Document processed successfully",
                                      !.extractedData = <<st.buffer>>, !.sawDone = TRUE,
                                      !.pc = "none"]
              ELSE IF st.outcome = "throw"
              THEN ui' = CatchState([read EXCEPT !.sawDone = TRUE],
                                    "Failed to parse extracted data")
              ELSE ui' = [read EXCEPT !.progress = IF st.analyzed THEN st.currentProgress ELSE @,
                                      !.message = IF st.analyzed
                                                  THEN "Analyzing document content..." ELSE @]
  /\ UNCHANGED <<env, documents, files, requests, calls>>

ProcessorNext ==
  \/ handleFileSelect \/ handleFileRemove \/ processDocument
  \/ UploadResponds \/ ProcessResponds \/ ReaderRead

ProcessorSpec == ProcessorInit /\ [][ProcessorNext]_vars

\* C22: however the transport splits the route's bytes into reads, when the
\* client sees [DONE] its buffer equals the serialized result the route
\* chunked (every content event appended once, in emission order).
C22_BufferEqualsResultAtDone ==
  [][ (~ui.sawDone /\ ui'.sawDone) => ui'.buffer = ui'.json ]_vars

\* reads that end at event boundaries: the buffer is the serialized result
C22_AlignedReads ==
  /\ ui.sawDone /\ ui.status = "completed"
  /\ ui.buffer = ui.json /\ Len(ui.json) > chunkSize
  /\ ui.extractedData = <<ui.json>>

\* C28: a run of processDocument that has ended has left the component in
\* status 'completed' or 'error' (or 'idle' after a later file selection),
\* never in 'uploading' or 'processing' with the file input disabled.
C28_RunEndsCompletedOrError ==
  (ui.pc = "none" /\ ui.runs > 0) =>
    /\ ui.status \notin {"uploading", "processing"}
    /\ ~InputDisabled

\* C29: uploading is true exactly in status 'uploading' and processing
\* exactly in status 'processing'; 'completed' comes with extractedData and
\* progress 100, 'error' with progress 0; a run is in flight only in status
\* 'uploading' or 'processing', where the Process Document button is not
\* offered, and a run starts only from status 'idle'.
C29_FlagsAgreeWithStatus ==
  [][ /\ ui'.uploading <=> ui'.status = "uploading"
      /\ ui'.processing <=> ui'.status = "processing"
      /\ ui'.status = "completed" => (ui'.extractedData # <<>> /\ ui'.progress = 100)
      /\ ui'.status = "error" => ui'.progress = 0
      /\ ui'.pc # "none" => ui'.status \in {"uploading", "processing"}
      /\ ui'.runs # ui.runs => (ui.status = "idle" /\ ui.pc = "none")
    ]_vars

\* a second run that failed after a first run that completed
C29_Witness ==
  /\ ui.runs = 2 /\ ui.status = "error" /\ ui.progress = 0
  /\ ui.message = "Failed to parse extracted data"
  /\ ~ui.uploading /\ ~ui.processing
====
